---- MODULE Spec2Model ----
(***************************************************************************)
(* krangler: content-addressed ingest of depot manifests.                  *)
(*                                                                         *)
(* The model follows one ingest process (cli.main) that takes one          *)
(* (depot, manifest) at a time through the loose phase (ingest_source)     *)
(* and the bundled phase (ingest_bundled) against                          *)
(*   - the artifact store (store.py, relational backend: tables data,      *)
(*     index, depot_fact),                                                 *)
(*   - the extent map (bundled_extent_map.py: extent table, SHA-1 bridge). *)
(* A run can be aborted between any two of its steps; what it wrote        *)
(* durably stays, its locals are lost.                                     *)
(*                                                                         *)
(* Bytes are sequences of naturals.  SHA-256 and SHA-1 are modelled as     *)
(* injective tagging functions, so a digest determines its preimage.       *)
(* cli.py calls ingest_source / ingest_bundled without the store and the   *)
(* extent map arguments; the model binds them to the one store and the one *)
(* extent map of the state.                                                *)
(***************************************************************************)
EXTENDS Naturals, Sequences, FiniteSets, TLC

VARIABLES
    data,        \* table data(content_hash PK, data, compression)
    index,       \* table index: key -> sequence of rows
    depot_fact,  \* set of <<depot, gid, fact>>
    emdb,        \* extent map: <<bundle_hash, file_offset, file_size>> -> file_hash
    sha1db,      \* SHA-1 bridge: sha1 -> sha256
    pc,          \* position of the ingest process
    cur,         \* the (depot, manifest) the process works on
    rows,        \* rows handed to the open index_writer
    queue,       \* the run's BatchQueue
    loc,         \* the other locals of the running ingest function
    fs,          \* FilesystemStore: the files under the root directory
    cl           \* clients that call the store / extent map API directly

durable == <<data, index, depot_fact, emdb, sha1db>>
\* state the ingest process of cli.main does not touch
harness == <<fs, cl>>
\* the locals of the ingest process
process == <<pc, cur, rows, queue, loc>>
vars == <<data, index, depot_fact, emdb, sha1db, pc, cur, rows, queue, loc, fs, cl>>

----------------------------------------------------------------------------
(* Generic helpers *)

Put(f, k, v) == [x \in (DOMAIN f) \cup {k} |-> IF x = k THEN v ELSE f[x]]

EmptyMap == [x \in {} |-> {}]

Min(a, b) == IF a < b THEN a ELSE b

\* Python slicing s[start:end] of a byte string (clipped at the end)
Slice(s, start, end) ==
    IF start >= Len(s) THEN <<>> ELSE SubSeq(s, start + 1, Min(end, Len(s)))

RECURSIVE Join(_)
\* "/".join(segments)
Join(segs) ==
    IF Len(segs) = 0 THEN ""
    ELSE IF Len(segs) = 1 THEN segs[1]
    ELSE segs[1] \o "/" \o Join(Tail(segs))

----------------------------------------------------------------------------
(* Hash primitives *)

SHA256(b) == [alg |-> "sha256", of |-> b]
SHA1(b) == [alg |-> "sha1", of |-> b]
\* the all-zero 32-byte digest: no content hashes to it
ZeroSHA256 == [alg |-> "sha256-zero", of |-> <<>>]

\* bytes.hex() / bytes.fromhex()
Hex(d) == [hex |-> d]
FromHex(h) == h.hex

\* str.lower() on the path strings of the catalogue
Lower(s) ==
    CASE s = "Art" -> "art"
      [] s = "Art/a.png" -> "art/a.png"
      [] s = "Art/b.png" -> "art/b.png"
      [] s = "Art/c.png" -> "art/c.png"
      [] s = "Art/d.png" -> "art/d.png"
      [] s = "Content.ggpk" -> "content.ggpk"
      [] s = "Bundles2/_.index.bin" -> "bundles2/_.index.bin"
      [] s = "Bundles2/A.bundle.bin" -> "bundles2/a.bundle.bin"
      [] s = "Bundles2/B.bundle.bin" -> "bundles2/b.bundle.bin"
      [] s = "Bundles2/C.bundle.bin" -> "bundles2/c.bundle.bin"
      [] s = "/Data/z.dat" -> "/data/z.dat"
      [] OTHER -> s

murmur2_64a(s, seed) == [alg |-> "murmur64a", seed |-> seed, of |-> s]
fnv1a64(s) == [alg |-> "fnv1a64", seed |-> "", of |-> s]

\* PoE_3_21_2_Hash
modern_hash_file_path(p) == murmur2_64a(Lower(p), "1337b33f")
modern_hash_dir_path(p) == murmur2_64a(Lower(p), "1337b33f")
\* PoE_3_11_2_Hash
legacy_hash_file_path(p) == fnv1a64(Lower(p) \o "++")
legacy_hash_dir_path(p) == fnv1a64(p \o "++")

\* str(int)
Str(n) == [t |-> "str", v |-> n]
Int(n) == [t |-> "int", v |-> n]

----------------------------------------------------------------------------
(* Zstd as used by DatabaseStore: a toy run-length codec.  A constant run  *)
(* of n >= 1 bytes v compresses to <<200 + n, v>>, anything else to the    *)
(* frame <<200>> \o bytes.                                                  *)

IsRun(d) == Len(d) >= 1 /\ \A i \in 1..Len(d) : d[i] = d[1]
ZstdCompress(d) == IF IsRun(d) THEN <<200 + Len(d), d[1]>> ELSE <<200>> \o d
ZstdDecompress(z) ==
    IF z[1] = 200 THEN Tail(z) ELSE [i \in 1..(z[1] - 200) |-> z[2]]

----------------------------------------------------------------------------
(* DatabaseStore: objects *)

HasObject(tbl, addr) == \E r \in tbl : r.content_hash = addr

\* BulkWrite.store: the row INSERTed for (addr, data)
StoredRow(addr, d) ==
    IF Len(d) > Len(ZstdCompress(d))
    THEN [content_hash |-> addr, data |-> ZstdCompress(d), compression |-> "zstd"]
    ELSE [content_hash |-> addr, data |-> d, compression |-> "none"]

\* the transaction of the bulk write is never committed
write_data_bulk_uncommitted(tbl, batch) == tbl

\* write_data_bulk: one transaction of INSERT .. ON CONFLICT DO NOTHING;
\* batch maps addr -> bytes
write_data_bulk(tbl, batch) ==
    tbl \cup {StoredRow(a, batch[a]) : a \in {x \in DOMAIN batch : ~HasObject(tbl, x)}}

\* the anti-join written as a join: reports the addresses that are present
list_missing_objects_present(tbl, addrs) == {a \in addrs : HasObject(tbl, a)}

list_missing_objects(tbl, addrs) == {a \in addrs : ~HasObject(tbl, a)}

\* read_data: the set of byte strings returned for addr (empty: None)
read_data(tbl, addr) ==
    {IF r.compression = "zstd" THEN ZstdDecompress(r.data) ELSE r.data :
        r \in {x \in tbl : x.content_hash = addr}}

----------------------------------------------------------------------------
(* DatabaseStore: indices and facts *)

\* the primary key index_writer / index_reader address a row of table index by
IndexKey(depot, manifest, kind) == <<manifest, kind>>

HasIndex(idx, depot, manifest, kind) == IndexKey(depot, manifest, kind) \in DOMAIN idx

index_reader(idx, depot, manifest, kind) == idx[IndexKey(depot, manifest, kind)]

\* the writer is read before its last row reached the buffer
index_writer_commit_truncated(idx, depot, manifest, kind, rs) ==
    Put(idx, IndexKey(depot, manifest, kind),
        IF Len(rs) = 0 THEN rs ELSE SubSeq(rs, 1, Len(rs) - 1))

\* index_writer on successful close: INSERT .. ON CONFLICT DO UPDATE
index_writer_commit(idx, depot, manifest, kind, rs) ==
    Put(idx, IndexKey(depot, manifest, kind), rs)

has_depot_fact(facts, depot, gid, fact) == <<depot, gid, fact>> \in facts
set_depot_fact(facts, depot, gid, fact) == facts \cup {<<depot, gid, fact>>}

----------------------------------------------------------------------------
(* BundledExtentMap *)

_extent_hash_key(bundle_hash, file_offset, file_size) ==
    <<bundle_hash, file_offset, file_size>>

\* get_extent_hash: the set of values found (empty: None)
get_extent_hash(em, bundle_hash, file_offset, file_size) ==
    IF _extent_hash_key(bundle_hash, file_offset, file_size) \in DOMAIN em
    THEN {em[_extent_hash_key(bundle_hash, file_offset, file_size)]}
    ELSE {}

\* the write transaction is never committed
set_extent_hashes_uncommitted(em, keys, values) == em

RECURSIVE set_extent_hashes(_, _, _)
\* one write transaction putting zip(keys, values) in order
set_extent_hashes(em, keys, values) ==
    IF Len(keys) = 0 \/ Len(values) = 0 THEN em
    ELSE set_extent_hashes(
            Put(em, _extent_hash_key(keys[1][1], keys[1][2], keys[1][3]), values[1]),
            Tail(keys), Tail(values))

get_sha256_from_sha1(db, sha1) == IF sha1 \in DOMAIN db THEN {db[sha1]} ELSE {}
set_sha256_from_sha1(db, sha1, sha256) == Put(db, sha1, sha256)

----------------------------------------------------------------------------
(* BatchQueue *)

BatchQueue(size_budget, count_budget) ==
    [size_budget |-> size_budget, count_budget |-> count_budget,
     size_acc |-> 0, count_acc |-> 0, objects |-> EmptyMap]

ShouldFlush(q, force) ==
    LET above_size == IF q.size_budget # 0 THEN q.size_acc >= q.size_budget ELSE FALSE
        above_count == IF q.count_budget # 0 THEN q.count_acc >= q.count_budget ELSE FALSE
    IN force \/ above_size \/ above_count

\* force is ignored: only a queue over budget is written
flush_data_unforced(q, tbl, force) ==
    IF ShouldFlush(q, FALSE)
    THEN write_data_bulk(tbl, [a \in list_missing_objects(tbl, DOMAIN q.objects) |->
                                  q.objects[a].data])
    ELSE tbl

\* flush: the data table after the flush
flush_data(q, tbl, force) ==
    IF ShouldFlush(q, force)
    THEN LET missing_addrs == list_missing_objects(tbl, DOMAIN q.objects)
         IN write_data_bulk(tbl, [a \in missing_addrs |-> q.objects[a].data])
    ELSE tbl

\* flush: the queue after the flush
flush_queue(q, force) ==
    IF ShouldFlush(q, force)
    THEN [q EXCEPT !.objects = EmptyMap, !.size_acc = 0, !.count_acc = 0]
    ELSE q

\* store_one up to the trailing flush(force=False)
enqueue(q, addr, obj) ==
    [q EXCEPT !.size_acc = @ + obj.size, !.count_acc = @ + 1,
              !.objects = Put(@, addr, obj)]

store_one_data(q, tbl, addr, obj) == flush_data(enqueue(q, addr, obj), tbl, FALSE)
store_one_queue(q, addr, obj) == flush_queue(enqueue(q, addr, obj), FALSE)

\* Object(data, size)
Object(d, size) == [data |-> d, size |-> size]

\* queue.store_one for every address of the sequence addrs, in order
RECURSIVE StoreAll(_, _, _, _)
StoreAll(q, tbl, addrs, objs) ==
    IF Len(addrs) = 0 THEN [queue |-> q, data |-> tbl]
    ELSE StoreAll(store_one_queue(q, addrs[1], objs[addrs[1]]),
                  store_one_data(q, tbl, addrs[1], objs[addrs[1]]),
                  Tail(addrs), objs)

RECURSIVE SetToSeq(_)
\* the iteration order of a Python set: some fixed order
SetToSeq(S) ==
    IF S = {} THEN <<>>
    ELSE LET x == CHOOSE y \in S : TRUE IN <<x>> \o SetToSeq(S \ {x})

----------------------------------------------------------------------------
(* The depots of the catalogue.                                            *)
(*   DM1: downloaded tree with a manifest sidecar, holding an index bundle *)
(*        and three bundles;                                               *)
(*   DM2: a directory without sidecar, holding Content.ggpk;               *)
(*   DM3: a tree with sidecar and plain files only; its manifest lists     *)
(*        b.txt before a.txt, the file it shares with the other two;       *)
(*        b.txt has the bytes of Art/b.png, an inner file of bundle B;     *)
(*   DM4: the bundles of DM1 under an index bundle of the first bundle     *)
(*        revision (FNV path hashes);                                      *)
(*   DM5: the same under an index bundle whose path hashes follow neither  *)
(*        known algorithm;                                                 *)
(*   DM6: nothing but an index bundle that declares no bundle, no file     *)
(*        and no path region;                                              *)
(*   DM7: a directory without sidecar whose Content.ggpk lies in a         *)
(*        subdirectory.                                                    *)

DM1 == [depot |-> 1, manifest |-> 1]
DM2 == [depot |-> 1, manifest |-> 2]
DM3 == [depot |-> 2, manifest |-> 3]
Manifests == {DM1, DM2, DM3}
DM4 == [depot |-> 1, manifest |-> 4]
DM5 == [depot |-> 1, manifest |-> 5]
DM6 == [depot |-> 1, manifest |-> 6]
DM7 == [depot |-> 1, manifest |-> 7]
NoDM == [depot |-> 0, manifest |-> 0]

\* Oodle container of an outer bundle with uncompressed payload p
Oodle(p) == <<90>> \o p
IndexBlob == <<91>>
PackBlob == <<92>>
LegacyIndexBlob == <<93>>
UnknownIndexBlob == <<94>>
EmptyIndexBlob == <<95>>

PayloadA == <<11, 12>>
PayloadB == <<13, 14>>
PayloadC == <<15, 16>>

\* the files a Source yields, in walk / manifest order
SourceFiles(dm) ==
    CASE dm = DM1 ->
            << [path |-> <<"a.txt">>, data |-> <<1>>],
               [path |-> <<"Bundles2", "_.index.bin">>, data |-> IndexBlob],
               [path |-> <<"Bundles2", "A.bundle.bin">>, data |-> Oodle(PayloadA)],
               [path |-> <<"Bundles2", "B.bundle.bin">>, data |-> Oodle(PayloadB)],
               [path |-> <<"Bundles2", "C.bundle.bin">>, data |-> Oodle(PayloadC)] >>
      [] dm = DM2 ->
            << [path |-> <<"a.txt">>, data |-> <<1>>],
               [path |-> <<"Content.ggpk">>, data |-> PackBlob],
               [path |-> <<"r.dat">>, data |-> <<7, 7, 7>>] >>
      [] dm = DM3 ->
            << [path |-> <<"b.txt">>, data |-> <<13, 14>>],
               [path |-> <<"a.txt">>, data |-> <<1>>] >>
      [] dm \in {DM4, DM5} ->
            << [path |-> <<"Bundles2", "_.index.bin">>,
                data |-> IF dm = DM4 THEN LegacyIndexBlob ELSE UnknownIndexBlob],
               [path |-> <<"Bundles2", "A.bundle.bin">>, data |-> Oodle(PayloadA)],
               [path |-> <<"Bundles2", "B.bundle.bin">>, data |-> Oodle(PayloadB)],
               [path |-> <<"Bundles2", "C.bundle.bin">>, data |-> Oodle(PayloadC)] >>
      [] dm = DM6 ->
            << [path |-> <<"Bundles2", "_.index.bin">>, data |-> EmptyIndexBlob] >>
      [] dm = DM7 ->
            << [path |-> <<"a.txt">>, data |-> <<1>>],
               [path |-> <<"dist", "Content.ggpk">>, data |-> PackBlob] >>
      [] OTHER -> <<>>

\* whether a depot manifest sidecar is found for the source
HasSidecar(dm) == dm \in {DM1, DM3}

\* Source.contains(path)
source_contains(dm, path) ==
    \E k \in 1..Len(SourceFiles(dm)) : SourceFiles(dm)[k].path = path

\* Source.open(path).read()
source_read(dm, path) ==
    LET k == CHOOSE n \in 1..Len(SourceFiles(dm)) : SourceFiles(dm)[n].path = path
    IN SourceFiles(dm)[k].data

\* PurePosixPath.name
PathName(path) == path[Len(path)]

----------------------------------------------------------------------------
(* GGPK pack (ggpk.py).  The pack of the catalogue: a root directory with  *)
(* a hashed file x.dat and a directory Data holding z.dat, whose stored    *)
(* SHA-256 is all zero; o.dat is referenced by no directory.               *)

PackHeader == [child0 |-> 28, child1 |-> 0]

PackChunks ==
    << [offset |-> 28, tag |-> "PDIR", name |-> "", children |-> <<100, 200>>],
       [offset |-> 100, tag |-> "FILE", name |-> "x.dat",
        sha256 |-> SHA256(<<21>>), data |-> <<21>>],
       [offset |-> 200, tag |-> "PDIR", name |-> "Data", children |-> <<300>>],
       [offset |-> 300, tag |-> "FILE", name |-> "z.dat",
        sha256 |-> ZeroSHA256, data |-> <<22>>],
       [offset |-> 400, tag |-> "FILE", name |-> "o.dat",
        sha256 |-> SHA256(<<23>>), data |-> <<23>>] >>

RECURSIVE ScanParents(_, _)
\* self.parents after the scan of chunks: child_offset -> pack_offset
ScanParents(chunks, acc) ==
    IF Len(chunks) = 0 THEN acc
    ELSE LET c == chunks[1]
             acc2 == IF c.tag = "PDIR"
                     THEN [o \in (DOMAIN acc) \cup {c.children[k] : k \in 1..Len(c.children)} |->
                             IF \E k \in 1..Len(c.children) : c.children[k] = o
                             THEN c.offset ELSE acc[o]]
                     ELSE acc
         IN ScanParents(Tail(chunks), acc2)

\* PackSource.__init__
PackSource(header, chunks) ==
    LET pdirs == {k \in 1..Len(chunks) : chunks[k].tag = "PDIR"}
        pfiles == {k \in 1..Len(chunks) : chunks[k].tag = "FILE"}
    IN [root_offset |-> {chunks[k].offset : k \in
                           {n \in pdirs : chunks[n].offset \in {header.child0, header.child1}}},
        dirs |-> [o \in {chunks[k].offset : k \in pdirs} |->
                    chunks[CHOOSE k \in pdirs : chunks[k].offset = o]],
        files |-> [o \in {chunks[k].offset : k \in pfiles} |->
                    chunks[CHOOSE k \in pfiles : chunks[k].offset = o]],
        file_offsets |-> SelectSeq([k \in 1..Len(chunks) |-> chunks[k].offset],
                                   LAMBDA o : \E k \in pfiles : chunks[k].offset = o),
        parents |-> ScanParents(chunks, [o \in {} |-> 0])]

RECURSIVE WalkToRoot(_, _, _)
\* the loop of file_path: segments from the file up to the root, or <<>>
\* when the parent chain ends before the root
WalkToRoot(pack, offset, segments) ==
    IF offset \notin DOMAIN pack.parents THEN <<>>
    ELSE LET dir_offset == pack.parents[offset]
             segs == <<pack.dirs[dir_offset].name>> \o segments
         IN IF dir_offset \in pack.root_offset THEN segs
            ELSE WalkToRoot(pack, dir_offset, segs)

\* PackSource.file_path: the set holding the path (empty: None)
file_path(pack, offset) ==
    LET segs == WalkToRoot(pack, offset, <<pack.files[offset].name>>)
    IN IF Len(segs) = 0 THEN {} ELSE {Join(segs)}

\* PackSource.file_data
file_data(pack, offset) == pack.files[offset].data

\* open_pack_source on the pack file of the catalogue
open_pack_source(blob) == PackSource(PackHeader, PackChunks)

----------------------------------------------------------------------------
(* Loose ingest (ingest_loose.py) *)

\* try_open_depot_manifest / generate_manifest_from_source: by_index
DepotManifest(dm) ==
    [k \in 1..Len(SourceFiles(dm)) |->
        [path |-> SourceFiles(dm)[k].path,
         size |-> Len(SourceFiles(dm)[k].data),
         sha1 |-> IF HasSidecar(dm) THEN <<SHA1(SourceFiles(dm)[k].data)>> ELSE <<>>]]

\* record_one: the row written to the index
record_one(path_str, file_size, file_hash) ==
    [path |-> path_str,
     sha256 |-> Hex(file_hash),
     phash |-> Str(modern_hash_file_path(path_str)),
     size |-> file_size]

\* size_budget / count_budget of the queues the ingest functions build
IngestQueue == BatchQueue(200 * 2^20, 50 * 1000)

IdleLoc == [fn |-> "none"]

LooseLoc(dm) ==
    [fn |-> "ingest_source",
     by_index |-> DepotManifest(dm),
     i |-> 1,                 \* next entry of the first loop
     has_addr |-> EmptyMap,   \* address -> Object
     missing_addr |-> <<>>,   \* entry ordinals, in insertion order
     pack_file |-> {},        \* the open pack file (empty: unbound)
     j |-> 1,                 \* next item of missing_addr
     reads |-> <<>>]          \* entry ordinals whose lazy loader was called

\* cli.main picks a manifest and calls stage_and_ingest_loose
StageAndIngestLoose(dm) ==
    /\ pc = "idle"
    /\ pc' = "loose_call"
    /\ cur' = dm
    /\ UNCHANGED <<durable, rows, queue, loc>>
    /\ UNCHANGED harness

\* the check looks at the fact of the other phase
LooseAlreadyIngested_other_fact(facts, dm) ==
    has_depot_fact(facts, dm.depot, dm.manifest, "bundled_ingested")

\* the completion check of stage_and_ingest_loose / ingest_loose_files
LooseAlreadyIngested(facts, dm) ==
    has_depot_fact(facts, dm.depot, dm.manifest, "loose_ingested")

\* stage_and_ingest_loose up to the first step of ingest_source
LooseCheck ==
    /\ pc = "loose_call"
    /\ IF LooseAlreadyIngested(depot_fact, cur)
       THEN /\ pc' = "idle"
            /\ cur' = NoDM
            /\ UNCHANGED <<rows, queue, loc>>
       ELSE /\ pc' = "loose_entries"
            /\ rows' = <<>>
            /\ queue' = IngestQueue
            /\ loc' = LooseLoc(cur)
            /\ cur' = cur
    /\ UNCHANGED durable
    /\ UNCHANGED harness

\* one iteration of the loop over depot_manifest.by_index
LooseEntry ==
    /\ pc = "loose_entries"
    /\ loc.i <= Len(loc.by_index)
    /\ LET entry == loc.by_index[loc.i]
           name == PathName(entry.path)
           sha256hash == IF Len(entry.sha1) > 0
                         THEN get_sha256_from_sha1(sha1db, entry.sha1[1])
                         ELSE {}
           obj == Object(source_read(cur, entry.path), entry.size)
       IN IF name = "Content.ggpk"
          THEN /\ depot_fact' = set_depot_fact(depot_fact, cur.depot, cur.manifest, "has_pack")
               /\ loc' = [loc EXCEPT !.i = @ + 1, !.pack_file = {entry.path}]
               /\ UNCHANGED rows
          ELSE /\ depot_fact' = IF name = "_.index.bin"
                                THEN set_depot_fact(depot_fact, cur.depot, cur.manifest,
                                                    "has_bundles")
                                ELSE depot_fact
               /\ IF sha256hash # {}
                  THEN LET h == CHOOSE x \in sha256hash : TRUE
                       IN /\ loc' = [loc EXCEPT !.i = @ + 1,
                                                !.has_addr = Put(@, h, obj)]
                          /\ rows' = Append(rows, record_one(Join(entry.path), entry.size, h))
                  ELSE /\ loc' = [loc EXCEPT !.i = @ + 1,
                                             !.missing_addr = Append(@, loc.i)]
                       /\ UNCHANGED rows
    /\ UNCHANGED <<data, index, emdb, sha1db, pc, cur, queue>>
    /\ UNCHANGED harness

\* the digest the bridge gives for a manifest entry (empty: none)
entry_sha256hash(db, entry) ==
    IF Len(entry.sha1) > 0 THEN get_sha256_from_sha1(db, entry.sha1[1]) ELSE {}

\* the ordinal of the entry whose Object has_addr holds under addr: the last
\* entry the bridge resolved to addr
has_addr_entry(db, l, addr) ==
    LET ks == {k \in 1..Len(l.by_index) :
                 /\ PathName(l.by_index[k].path) # "Content.ggpk"
                 /\ entry_sha256hash(db, l.by_index[k]) = {addr}}
    IN CHOOSE k \in ks : \A n \in ks : n <= k

\* an address the bridge resolved is taken to be in the store
bulk_batch_bridge_trusted(tbl, has_addr) == [a \in {} |-> <<>>]

\* the (addr, data) pairs handed to bulk.store: the addresses of has_addr
\* the store lacks, with the bytes read from the source
bulk_batch(tbl, has_addr) ==
    [a \in list_missing_objects(tbl, DOMAIN has_addr) |-> has_addr[a].data]

\* every Object of has_addr has its loader called
bulk_reads_every_object(tbl, db, l) ==
    SetToSeq({k \in 1..Len(l.by_index) :
                \E a \in DOMAIN l.has_addr : has_addr_entry(db, l, a) = k})

\* the entries whose loader the bulk loop calls: has_addr[addr].data() for
\* the addresses list_missing_objects returns
bulk_reads(tbl, db, l) ==
    LET missing == SetToSeq(list_missing_objects(tbl, DOMAIN l.has_addr))
    IN [k \in 1..Len(missing) |-> has_addr_entry(db, l, missing[k])]

\* "Query for which addresses already exist": one bulk transaction
LooseBulk ==
    /\ pc = "loose_entries"
    /\ loc.i > Len(loc.by_index)
    /\ data' = write_data_bulk(data, bulk_batch(data, loc.has_addr))
    /\ loc' = [loc EXCEPT !.reads = @ \o bulk_reads(data, sha1db, loc)]
    /\ pc' = "loose_deferred"
    /\ UNCHANGED <<index, depot_fact, emdb, sha1db, cur, rows, queue>>
    /\ UNCHANGED harness

\* one iteration of "Process loose files"
LooseDeferred ==
    /\ pc = "loose_deferred"
    /\ loc.j <= Len(loc.missing_addr)
    /\ LET mf_entry == loc.by_index[loc.missing_addr[loc.j]]
           d == source_read(cur, mf_entry.path)
           addr == SHA256(d)
           obj == Object(d, Len(d))
       IN /\ rows' = Append(rows, record_one(Join(mf_entry.path), mf_entry.size, addr))
          /\ sha1db' = IF Len(mf_entry.sha1) > 0
                       THEN set_sha256_from_sha1(sha1db, mf_entry.sha1[1], addr)
                       ELSE sha1db
          /\ data' = store_one_data(queue, data, addr, obj)
          /\ queue' = store_one_queue(queue, addr, obj)
    /\ loc' = [loc EXCEPT !.j = @ + 1, !.reads = Append(@, loc.missing_addr[loc.j])]
    /\ UNCHANGED <<index, depot_fact, emdb, pc, cur>>
    /\ UNCHANGED harness

\* the rows and objects of "Process eventual GGPK pack file"
PackRows(pack) ==
    LET offs == SelectSeq(pack.file_offsets, LAMBDA o : file_path(pack, o) # {})
    IN [k \in 1..Len(offs) |->
          record_one(CHOOSE x \in file_path(pack, offs[k]) : TRUE,
                     Len(pack.files[offs[k]].data),
                     pack.files[offs[k]].sha256)]

PackObjects(pack) ==
    LET offs == {o \in DOMAIN pack.files : file_path(pack, o) # {}}
        \* a later file with the same stored hash replaces the earlier one
        last(h) == CHOOSE o \in offs :
                      /\ pack.files[o].sha256 = h
                      /\ \A o2 \in offs : pack.files[o2].sha256 = h => o2 <= o
    IN [h \in {pack.files[o].sha256 : o \in offs} |->
          Object(file_data(pack, last(h)), Len(pack.files[last(h)].data))]

\* the pack step; it raises when Content.ggpk is in the source and no
\* manifest entry bound pack_file
LoosePack ==
    /\ pc = "loose_deferred"
    /\ loc.j > Len(loc.missing_addr)
    /\ IF source_contains(cur, <<"Content.ggpk">>)
       THEN IF loc.pack_file = {}
            THEN /\ pc' = "idle"
                 /\ cur' = NoDM
                 /\ rows' = <<>>
                 /\ queue' = IngestQueue
                 /\ loc' = IdleLoc
                 /\ UNCHANGED data
            ELSE LET pack == open_pack_source(
                                source_read(cur, CHOOSE x \in loc.pack_file : TRUE))
                     all_objects == PackObjects(pack)
                     missing == SetToSeq(list_missing_objects(data, DOMAIN all_objects))
                     st == StoreAll(queue, data, missing, all_objects)
                 IN /\ rows' = rows \o PackRows(pack)
                    /\ data' = flush_data(st.queue, st.data, TRUE)
                    /\ queue' = flush_queue(st.queue, TRUE)
                    /\ pc' = "loose_flush"
                    /\ UNCHANGED <<cur, loc>>
       ELSE /\ pc' = "loose_flush"
            /\ UNCHANGED <<data, cur, rows, queue, loc>>
    /\ UNCHANGED <<index, depot_fact, emdb, sha1db>>
    /\ UNCHANGED harness

\* "Submit any final uncommitted objects"
LooseFlush ==
    /\ pc = "loose_flush"
    /\ data' = flush_data(queue, data, TRUE)
    /\ queue' = flush_queue(queue, TRUE)
    /\ pc' = "loose_commit"
    /\ UNCHANGED <<index, depot_fact, emdb, sha1db, cur, rows, loc>>
    /\ UNCHANGED harness

\* the index_writer scope closes
LooseCommit ==
    /\ pc = "loose_commit"
    /\ index' = index_writer_commit(index, cur.depot, cur.manifest, "loose", rows)
    /\ pc' = "loose_setfact"
    /\ UNCHANGED <<data, depot_fact, emdb, sha1db, cur, rows, queue, loc>>
    /\ UNCHANGED harness

\* ingest_loose_files: tracker.set_state('loose_ingested')
LooseSetFact ==
    /\ pc = "loose_setfact"
    /\ depot_fact' = set_depot_fact(depot_fact, cur.depot, cur.manifest, "loose_ingested")
    /\ pc' = "idle"
    /\ cur' = NoDM
    /\ rows' = <<>>
    /\ queue' = IngestQueue
    /\ loc' = IdleLoc
    /\ UNCHANGED <<data, index, emdb, sha1db>>
    /\ UNCHANGED harness

----------------------------------------------------------------------------
(* Bundle parser and bundled ingest (ingest_bundled.py) *)

\* CompressedBundle(BytesIO(blob)).decompress_all()
decompress_all(blob) == Tail(blob)

\* the file records of the index bundles of the catalogue, their path
\* hashes made by hash_file
IndexFiles(hash_file(_)) ==
    << [path_hash |-> hash_file("Art/b.png"),
        bundle_index |-> 1, file_offset |-> 0, file_size |-> 2],
       [path_hash |-> hash_file("Art/c.png"),
        bundle_index |-> 2, file_offset |-> 1, file_size |-> 1],
       [path_hash |-> hash_file("Art/d.png"),
        bundle_index |-> 0, file_offset |-> 1, file_size |-> 1],
       [path_hash |-> hash_file("Art/a.png"),
        bundle_index |-> 0, file_offset |-> 0, file_size |-> 1] >>

\* a path hasher that is neither PoE_3_11_2_Hash nor PoE_3_21_2_Hash
other_hash_path(p) == murmur2_64a(Lower(p), "0")

\* BundleIndex(index_data) for the index bundles of the catalogue: three
\* bundles of 512 MiB declared size, four file records in no particular
\* order, one path region; the empty index bundle declares nothing
BundleIndex(index_data) ==
    LET bundles == << [name |-> "A", uncompressed_size |-> 2^29],
                      [name |-> "B", uncompressed_size |-> 2^29],
                      [name |-> "C", uncompressed_size |-> 2^29] >>
        paths == <<"Art/a.png", "Art/b.png", "Art/c.png", "Art/d.png">>
    IN CASE index_data = LegacyIndexBlob ->
              [bundles |-> bundles, files |-> IndexFiles(legacy_hash_file_path),
               path_reps |-> << [hash |-> legacy_hash_dir_path("Art"), paths |-> paths] >>]
         [] index_data = UnknownIndexBlob ->
              [bundles |-> bundles, files |-> IndexFiles(other_hash_path),
               path_reps |-> << [hash |-> other_hash_path("Art"), paths |-> paths] >>]
         [] index_data = EmptyIndexBlob ->
              [bundles |-> <<>>, files |-> <<>>, path_reps |-> <<>>]
         [] OTHER ->
              [bundles |-> bundles, files |-> IndexFiles(modern_hash_file_path),
               path_reps |-> << [hash |-> modern_hash_dir_path("Art"), paths |-> paths] >>]

\* BundleRecord.bin_path
bin_path(brec) == "Bundles2/" \o brec.name \o ".bundle.bin"

\* str.endswith(".bundle.bin") on the path strings of the catalogue
endswith_bundle_bin(s) ==
    s \in {"Bundles2/A.bundle.bin", "Bundles2/B.bundle.bin", "Bundles2/C.bundle.bin"}

\* tuple comparison of (a1, a2, a3) < (b1, b2, b3)
TupleLess(a, b) ==
    \/ a[1] < b[1]
    \/ a[1] = b[1] /\ a[2] < b[2]
    \/ a[1] = b[1] /\ a[2] = b[2] /\ a[3] < b[3]

RECURSIVE InsertByKey(_, _)
\* the pair x = <<key, value>> put after the last pair of the sorted
\* sequence whose key is <= its own
InsertByKey(sorted, x) ==
    IF Len(sorted) = 0 THEN <<x>>
    ELSE IF TupleLess(x[1], sorted[Len(sorted)][1])
         THEN Append(InsertByKey(SubSeq(sorted, 1, Len(sorted) - 1), x),
                     sorted[Len(sorted)])
         ELSE Append(sorted, x)

RECURSIVE SortByKey(_)
\* sorted() of a sequence of <<key, value>> pairs by key: stable
SortByKey(seq) ==
    IF Len(seq) = 0 THEN <<>>
    ELSE InsertByKey(SortByKey(SubSeq(seq, 1, Len(seq) - 1)), seq[Len(seq)])

FileKey(f) == <<f.bundle_index, f.file_offset, f.file_size>>

\* the file list is traversed as the index bundle lists it
sorted_files_as_listed(files) == files

\* l2: "Sort file list to traverse in bundle and offset order"
sorted_files(files) ==
    LET srt == SortByKey([k \in 1..Len(files) |-> <<FileKey(files[k]), files[k]>>])
    IN [k \in 1..Len(srt) |-> srt[k][2]]

\* l2b: the sorted records of each bundle (bundle bid at position bid + 1)
bucket_files(idx) ==
    [b \in 1..Len(idx.bundles) |->
        SelectSeq(sorted_files(idx.files), LAMBDA f : f.bundle_index = b - 1)]

\* an index bundle of an unknown algorithm is read as a modern one
detect_hasher_modern_default(rep_hashes) ==
    IF legacy_hash_dir_path("Art") \in rep_hashes THEN "legacy" ELSE "modern"

\* the detection of _generate_path_hash_table; "unknown" stands for the
\* RuntimeError
detect_hasher(rep_hashes) ==
    IF legacy_hash_dir_path("Art") \in rep_hashes THEN "legacy"
    ELSE IF modern_hash_dir_path("Art") \in rep_hashes THEN "modern"
    ELSE "unknown"

\* ret.ihasher.hash_file_path(s)
ihasher_hash_file_path(kind, s) ==
    IF kind = "legacy" THEN legacy_hash_file_path(s) ELSE modern_hash_file_path(s)

\* the output hash is the input hash whatever the hasher
ohash_same_as_ihash(kind, s) == ihasher_hash_file_path(kind, s)

\* ohash = ret.ohasher.hash_file_path(s) if ret.ohasher else ihash
ohash(kind, s) ==
    IF kind = "legacy" THEN modern_hash_file_path(s) ELSE ihasher_hash_file_path(kind, s)

\* _generate_path_hash_table
_generate_path_hash_table(idx) ==
    LET rep_hashes == {idx.path_reps[k].hash : k \in 1..Len(idx.path_reps)}
        kind == detect_hasher(rep_hashes)
        ihash(p) == ihasher_hash_file_path(kind, p)
        paths == UNION {{idx.path_reps[k].paths[n] : n \in 1..Len(idx.path_reps[k].paths)} :
                          k \in 1..Len(idx.path_reps)}
    IN [kind |-> kind,
        path_by_ihash |-> [h \in {ihash(p) : p \in paths} |->
                              CHOOSE p \in paths : ihash(p) = h],
        ohash_by_ihash |-> [h \in {ihash(p) : p \in paths} |->
                              ohash(kind, CHOOSE p \in paths : ihash(p) = h)]]

max_size == 1 * 2^30
max_count == 100 * 10^3

RECURSIVE GroupFold(_, _, _, _, _, _, _)
GroupFold(bid, l2b, bundles, ret, acc_group, acc_size, acc_count) ==
    IF bid >= Len(l2b)
    THEN IF Len(acc_group) > 0
         THEN Append(ret, [membs |-> acc_group, size |-> acc_size, count |-> acc_count])
         ELSE ret
    ELSE LET cut == acc_size >= max_size \/ acc_count >= max_count
         IN GroupFold(bid + 1, l2b, bundles,
                IF cut
                THEN Append(ret, [membs |-> acc_group, size |-> acc_size, count |-> acc_count])
                ELSE ret,
                Append(IF cut THEN <<>> ELSE acc_group, bid),
                (IF cut THEN 0 ELSE acc_size) + bundles[bid + 1].uncompressed_size,
                (IF cut THEN 0 ELSE acc_count) + Len(l2b[bid + 1]))

\* the group still open when the loop ends is not appended
group_bundles_closed_groups(l2b, bundles) ==
    LET r == GroupFold(0, l2b, bundles, <<>>, <<>>, 0, 0)
    IN SubSeq(r, 1, Len(r) - 1)

\* group_bundles
group_bundles(l2b, bundles) == GroupFold(0, l2b, bundles, <<>>, <<>>, 0, 0)

\* the loose-index row that names the index bundle (empty: not found)
index_file_addr(reader) ==
    LET ks == {k \in 1..Len(reader) : reader[k].path = "Bundles2/_.index.bin"}
    IN IF ks = {} THEN {}
       ELSE {reader[CHOOSE k \in ks : \A n \in ks : n <= k].sha256}

\* bundle_by_path: path -> the last row with that path
bundle_by_path(reader) ==
    LET ks == {k \in 1..Len(reader) : endswith_bundle_bin(reader[k].path)}
    IN [q \in {reader[k].path : k \in ks} |->
          reader[CHOOSE k \in ks : reader[k].path = q /\
                                  \A n \in ks : reader[n].path = q => n <= k]]

\* the locals of ingest_bundled when its loop over the groups starts
BundledLoc(reader, index_data) ==
    LET idx == BundleIndex(index_data)
    IN [fn |-> "ingest_bundled",
        index |-> idx,
        l2b |-> bucket_files(idx),
        bundle_by_path |-> bundle_by_path(reader),
        path_hashes |-> _generate_path_hash_table(idx),
        bid_groups |-> group_bundles(bucket_files(idx), idx.bundles),
        g |-> 1,                       \* next group
        new_bem_keys |-> <<>>,
        new_bem_values |-> <<>>,
        found_fhashes_bin |-> EmptyMap,
        datafiles |-> EmptyMap,
        bhash_bin |-> {},              \* the variable the bdata closures read
        reads |-> <<>>]                \* the digests store.read_data was asked for

RECURSIVE GroupFrecs(_, _)
\* the (bid, frec) pairs the first pass of a group visits, in order
GroupFrecs(membs, l2b) ==
    IF Len(membs) = 0 THEN <<>>
    ELSE [k \in 1..Len(l2b[membs[1] + 1]) |->
            [bid |-> membs[1], frec |-> l2b[membs[1] + 1][k]]]
         \o GroupFrecs(Tail(membs), l2b)

\* bhash_bin of bundle bid
bundle_hash(l, bid) ==
    FromHex(l.bundle_by_path[bin_path(l.index.bundles[bid + 1])].sha256)

\* the closure reads the bundle hash of the last member of the group
first_pass_bdata_last_member(tbl, l, bid) ==
    decompress_all(CHOOSE d \in read_data(tbl,
        bundle_hash(l, l.bid_groups[l.g].membs[Len(l.bid_groups[l.g].membs)])) : TRUE)

\* bdata() as the first pass calls it while it visits bundle bid
first_pass_bdata(tbl, l, bid) ==
    decompress_all(CHOOSE d \in read_data(tbl, bundle_hash(l, bid)) : TRUE)

ExtentMiss(em, l, x) ==
    get_extent_hash(em, bundle_hash(l, x.bid), x.frec.file_offset, x.frec.file_size) = {}

\* fhash_bin of one file record in the first pass
first_pass_hash(em, tbl, l, x) ==
    IF ExtentMiss(em, l, x)
    THEN SHA256(Slice(first_pass_bdata(tbl, l, x.bid), x.frec.file_offset,
                      x.frec.file_offset + x.frec.file_size))
    ELSE CHOOSE h \in get_extent_hash(em, bundle_hash(l, x.bid),
                                      x.frec.file_offset, x.frec.file_size) : TRUE

GroupMembs(l) == l.bid_groups[l.g].membs

\* the first pass raises: a bundle is not in the loose index, its object
\* cannot be read, or a record's path hash is not in the path table
FirstPassRaises(em, tbl, l) ==
    \/ \E k \in 1..Len(GroupMembs(l)) :
          bin_path(l.index.bundles[GroupMembs(l)[k] + 1]) \notin DOMAIN l.bundle_by_path
    \/ \E k \in DOMAIN GroupFrecs(GroupMembs(l), l.l2b) :
          LET x == GroupFrecs(GroupMembs(l), l.l2b)[k]
          IN \/ x.frec.path_hash \notin DOMAIN l.path_hashes.path_by_ihash
             \/ /\ ExtentMiss(em, l, x)
                /\ read_data(tbl, bundle_hash(l, x.bid)) = {}

\* the rows the first pass writes for the group
FirstPassRows(em, tbl, l) ==
    LET xs == GroupFrecs(GroupMembs(l), l.l2b)
    IN [k \in 1..Len(xs) |->
          [sha256 |-> Hex(first_pass_hash(em, tbl, l, xs[k])),
           path |-> l.path_hashes.path_by_ihash[xs[k].frec.path_hash],
           phash |-> Int(l.path_hashes.ohash_by_ihash[xs[k].frec.path_hash]),
           size |-> xs[k].frec.file_size]]

\* the bundles the first pass reads from the store and decompresses: bdata()
\* is called at the first extent miss of a bundle and its result kept
first_pass_reads(em, l) ==
    LET membs == GroupMembs(l)
        missed == SelectSeq(membs, LAMBDA b :
                     \E k \in 1..Len(l.l2b[b + 1]) :
                        ExtentMiss(em, l, [bid |-> b, frec |-> l.l2b[b + 1][k]]))
    IN [k \in 1..Len(missed) |-> bundle_hash(l, missed[k])]

\* the locals after the first pass of group l.g
FirstPassLoc(em, tbl, l) ==
    LET membs == GroupMembs(l)
        xs == GroupFrecs(membs, l.l2b)
        misses == SelectSeq(xs, LAMBDA x : ExtentMiss(em, l, x))
        hashes == {first_pass_hash(em, tbl, l, xs[k]) : k \in 1..Len(xs)}
        lastOf(h) == CHOOSE k \in 1..Len(xs) :
                        /\ first_pass_hash(em, tbl, l, xs[k]) = h
                        /\ \A n \in 1..Len(xs) :
                              first_pass_hash(em, tbl, l, xs[n]) = h => n <= k
    IN [l EXCEPT
          !.new_bem_keys = [k \in 1..Len(misses) |->
                              <<bundle_hash(l, misses[k].bid),
                                misses[k].frec.file_offset, misses[k].frec.file_size>>],
          !.new_bem_values = [k \in 1..Len(misses) |->
                                first_pass_hash(em, tbl, l, misses[k])],
          !.found_fhashes_bin = [h \in hashes |->
                                   <<xs[lastOf(h)].bid, xs[lastOf(h)].frec.file_offset,
                                     xs[lastOf(h)].frec.file_size>>],
          !.datafiles = [b \in {membs[k] : k \in 1..Len(membs)} |->
                           IF \E k \in 1..Len(misses) : misses[k].bid = b
                           THEN [ready |-> TRUE, bytes |-> first_pass_bdata(tbl, l, b)]
                           ELSE [ready |-> FALSE, bytes |-> <<>>]],
          !.bhash_bin = {bundle_hash(l, membs[Len(membs)])},
          !.reads = @ \o first_pass_reads(em, l)]

\* bdata of bundle bid in the second pass: the bytes the first pass left in
\* datafiles, or the closure called now, which reads the variable bhash_bin
second_pass_bdata(tbl, l, bid) ==
    IF l.datafiles[bid].ready THEN l.datafiles[bid].bytes
    ELSE decompress_all(CHOOSE d \in read_data(tbl, CHOOSE h \in l.bhash_bin : TRUE) : TRUE)

\* the second pass raises: a closure is called and read_data returns None
SecondPassRaises(tbl, l) ==
    \E a \in list_missing_objects(tbl, DOMAIN l.found_fhashes_bin) :
        /\ ~l.datafiles[l.found_fhashes_bin[a][1]].ready
        /\ read_data(tbl, CHOOSE h \in l.bhash_bin : TRUE) = {}

\* the digests the second pass asks store.read_data for: one call of the
\* closure for every bundle of a missing object that datafiles holds as a
\* callable, each reading the variable bhash_bin
second_pass_reads(tbl, l) ==
    LET called == SetToSeq({l.found_fhashes_bin[a][1] :
                       a \in {m \in list_missing_objects(tbl, DOMAIN l.found_fhashes_bin) :
                                 ~l.datafiles[l.found_fhashes_bin[m][1]].ready}})
    IN [k \in 1..Len(called) |-> CHOOSE h \in l.bhash_bin : TRUE]

\* only the bundles the first pass decompressed are uploaded from
ordered_objs_materialized_only(tbl, l) ==
    SetToSeq({a \in list_missing_objects(tbl, DOMAIN l.found_fhashes_bin) :
                l.datafiles[l.found_fhashes_bin[a][1]].ready})

\* ordered_objs: the missing addresses sorted by (bid, start, size)
ordered_objs(tbl, l) ==
    LET missing_objects == SetToSeq(list_missing_objects(tbl, DOMAIN l.found_fhashes_bin))
        srt == SortByKey([k \in 1..Len(missing_objects) |->
                            <<l.found_fhashes_bin[missing_objects[k]], missing_objects[k]>>])
    IN [k \in 1..Len(srt) |-> srt[k][2]]

\* the Objects the second pass hands to queue.store_one
SecondPassObjects(tbl, l) ==
    [a \in list_missing_objects(tbl, DOMAIN l.found_fhashes_bin) |->
        LET ext == l.found_fhashes_bin[a]
        IN Object(Slice(second_pass_bdata(tbl, l, ext[1]), ext[2], ext[2] + ext[3]),
                  ext[3])]

\* cli.main calls ingest_bundled_files
IngestBundledFiles(dm) ==
    /\ pc = "idle"
    /\ pc' = "bundled_call"
    /\ cur' = dm
    /\ UNCHANGED <<durable, rows, queue, loc>>
    /\ UNCHANGED harness

\* the checks of ingest_bundled_files before it calls ingest_bundled
BundledSkips(facts, dm) ==
    \/ has_depot_fact(facts, dm.depot, dm.manifest, "bundled_ingested")
    \/ ~has_depot_fact(facts, dm.depot, dm.manifest, "loose_ingested")

\* ingest_bundled_files up to the loop over the groups of ingest_bundled
BundledCheck ==
    /\ pc = "bundled_call"
    /\ IF BundledSkips(depot_fact, cur)
          \/ ~HasIndex(index, cur.depot, cur.manifest, "loose")
       THEN \* returns at once, or index_reader raises
            /\ pc' = "idle"
            /\ cur' = NoDM
            /\ UNCHANGED <<rows, queue, loc>>
       ELSE LET reader == index_reader(index, cur.depot, cur.manifest, "loose")
                addr == index_file_addr(reader)
                blobs == IF addr = {} THEN {}
                         ELSE read_data(data, FromHex(CHOOSE a \in addr : TRUE))
            IN IF addr = {}
               THEN \* "if not index_file_addr: return"
                    /\ pc' = "bundled_setfact"
                    /\ UNCHANGED <<cur, rows, queue, loc>>
               ELSE IF \/ blobs = {}
                       \/ _generate_path_hash_table(
                             BundleIndex(CHOOSE b \in blobs : TRUE)).kind = "unknown"
                    THEN \* BundleIndex or _generate_path_hash_table raises
                         /\ pc' = "idle"
                         /\ cur' = NoDM
                         /\ UNCHANGED <<rows, queue, loc>>
                    ELSE /\ loc' = BundledLoc(reader, CHOOSE b \in blobs : TRUE)
                         /\ pc' = IF Len(loc'.bid_groups) = 0
                                  THEN "bundled_flush" ELSE "bundled_first"
                         /\ rows' = <<>>
                         /\ queue' = IngestQueue
                         /\ cur' = cur
    /\ UNCHANGED durable
    /\ UNCHANGED harness

\* the first pass over a group: extent map lookups, hashing, index rows
BundledFirstPass ==
    /\ pc = "bundled_first"
    /\ IF FirstPassRaises(emdb, data, loc)
       THEN /\ pc' = "idle"
            /\ cur' = NoDM
            /\ rows' = <<>>
            /\ queue' = IngestQueue
            /\ loc' = IdleLoc
       ELSE /\ loc' = FirstPassLoc(emdb, data, loc)
            /\ rows' = rows \o FirstPassRows(emdb, data, loc)
            /\ pc' = "bundled_setextents"
            /\ UNCHANGED <<cur, queue>>
    /\ UNCHANGED durable
    /\ UNCHANGED harness

\* "if len(new_bem_keys): bem.set_extent_hashes(new_bem_keys, new_bem_values)"
BundledSetExtents ==
    /\ pc = "bundled_setextents"
    /\ emdb' = IF Len(loc.new_bem_keys) > 0
               THEN set_extent_hashes(emdb, loc.new_bem_keys, loc.new_bem_values)
               ELSE emdb
    /\ pc' = "bundled_second"
    /\ UNCHANGED <<data, index, depot_fact, sha1db, cur, rows, queue, loc>>
    /\ UNCHANGED harness

\* "Phase 2: find missing objects and upload them"
BundledSecondPass ==
    /\ pc = "bundled_second"
    /\ IF SecondPassRaises(data, loc)
       THEN /\ pc' = "idle"
            /\ cur' = NoDM
            /\ rows' = <<>>
            /\ queue' = IngestQueue
            /\ loc' = IdleLoc
            /\ UNCHANGED data
       ELSE LET st == StoreAll(queue, data, ordered_objs(data, loc),
                               SecondPassObjects(data, loc))
            IN /\ data' = st.data
               /\ queue' = st.queue
               /\ loc' = [loc EXCEPT !.g = @ + 1,
                                      !.reads = @ \o second_pass_reads(data, loc)]
               /\ pc' = IF loc.g + 1 > Len(loc.bid_groups)
                        THEN "bundled_flush" ELSE "bundled_first"
               /\ UNCHANGED <<cur, rows>>
    /\ UNCHANGED <<index, depot_fact, emdb, sha1db>>
    /\ UNCHANGED harness

\* the queue.flush() that ends ingest_bundled
BundledFlush ==
    /\ pc = "bundled_flush"
    /\ data' = flush_data(queue, data, TRUE)
    /\ queue' = flush_queue(queue, TRUE)
    /\ pc' = "bundled_commit"
    /\ UNCHANGED <<index, depot_fact, emdb, sha1db, cur, rows, loc>>
    /\ UNCHANGED harness

\* the index_writer scope closes
BundledCommit ==
    /\ pc = "bundled_commit"
    /\ index' = index_writer_commit(index, cur.depot, cur.manifest, "bundled", rows)
    /\ pc' = "bundled_setfact"
    /\ UNCHANGED <<data, depot_fact, emdb, sha1db, cur, rows, queue, loc>>
    /\ UNCHANGED harness

\* ingest_bundled_files: tracker.set_state('bundled_ingested')
BundledSetFact ==
    /\ pc = "bundled_setfact"
    /\ depot_fact' = set_depot_fact(depot_fact, cur.depot, cur.manifest, "bundled_ingested")
    /\ pc' = "idle"
    /\ cur' = NoDM
    /\ rows' = <<>>
    /\ queue' = IngestQueue
    /\ loc' = IdleLoc
    /\ UNCHANGED <<data, index, emdb, sha1db>>
    /\ UNCHANGED harness

\* an empty root directory
EmptyFs == [index |-> EmptyMap, data |-> EmptyMap]
\* no client at work
NoClients == EmptyMap

\* the process is interrupted, or a step raises: locals are lost
Abort ==
    /\ pc \notin {"idle", "loose_call", "bundled_call"}
    /\ pc' = "idle"
    /\ cur' = NoDM
    /\ rows' = <<>>
    /\ queue' = IngestQueue
    /\ loc' = IdleLoc
    /\ UNCHANGED durable
    /\ UNCHANGED harness

Init ==
    /\ data = {}
    /\ index = EmptyMap
    /\ depot_fact = {}
    /\ emdb = EmptyMap
    /\ sha1db = EmptyMap
    /\ pc = "idle"
    /\ cur = NoDM
    /\ rows = <<>>
    /\ queue = IngestQueue
    /\ loc = IdleLoc
    /\ fs = EmptyFs
    /\ cl = NoClients

Next ==
    \/ \E dm \in Manifests : StageAndIngestLoose(dm)
    \/ LooseCheck
    \/ LooseEntry
    \/ LooseBulk
    \/ LooseDeferred
    \/ LoosePack
    \/ LooseFlush
    \/ LooseCommit
    \/ LooseSetFact
    \/ \E dm \in Manifests : IngestBundledFiles(dm)
    \/ BundledCheck
    \/ BundledFirstPass
    \/ BundledSetExtents
    \/ BundledSecondPass
    \/ BundledFlush
    \/ BundledCommit
    \/ BundledSetFact
    \/ Abort

Spec == Init /\ [][Next]_vars

\* the manifests whose index bundles differ in their hash algorithm
FormatManifests == {DM1, DM4, DM5, DM6}

\* the ingest process on the manifests of every index format
NextFormats ==
    \/ \E dm \in FormatManifests : StageAndIngestLoose(dm)
    \/ LooseCheck
    \/ LooseEntry
    \/ LooseBulk
    \/ LooseDeferred
    \/ LoosePack
    \/ LooseFlush
    \/ LooseCommit
    \/ LooseSetFact
    \/ \E dm \in FormatManifests : IngestBundledFiles(dm)
    \/ BundledCheck
    \/ BundledFirstPass
    \/ BundledSetExtents
    \/ BundledSecondPass
    \/ BundledFlush
    \/ BundledCommit
    \/ BundledSetFact
    \/ Abort

PackManifests == {DM2, DM7}

\* loose ingest on the depots that hold a pack
NextPacks ==
    \/ \E dm \in PackManifests : StageAndIngestLoose(dm)
    \/ LooseCheck
    \/ LooseEntry
    \/ LooseBulk
    \/ LooseDeferred
    \/ LoosePack
    \/ LooseFlush
    \/ LooseCommit
    \/ LooseSetFact
    \/ Abort

SpecPacks == Init /\ [][NextPacks]_vars

SpecFormats == Init /\ [][NextFormats]_vars

----------------------------------------------------------------------------
(* FilesystemStore: indices.  fs.index maps an index path to the rows of   *)
(* the file at that path.                                                  *)

\* Paths.loose_index_path / bundled_index_path
fs_index_path(depot, manifest, kind) == <<"index", depot, manifest, kind>>

fs_has_index(f, depot, manifest, kind) ==
    fs_index_path(depot, manifest, kind) \in DOMAIN f.index

\* FilesystemStore.index_reader
fs_index_reader(f, depot, manifest, kind) == f.index[fs_index_path(depot, manifest, kind)]

\* the file is opened for appending instead of being replaced
fs_index_writer_commit_appended(f, depot, manifest, kind, rs) ==
    [f EXCEPT !.index =
        Put(@, fs_index_path(depot, manifest, kind),
            IF fs_has_index(f, depot, manifest, kind)
            THEN fs_index_reader(f, depot, manifest, kind) \o rs
            ELSE rs)]

\* FilesystemStore.index_writer on successful close: atomic_write with
\* overwrite=True renames the finished temporary file over the index path
fs_index_writer_commit(f, depot, manifest, kind, rs) ==
    [f EXCEPT !.index = Put(@, fs_index_path(depot, manifest, kind), rs)]

----------------------------------------------------------------------------
(* A client that uses index_writer / index_reader of either backend        *)
(* directly: it opens a writer scope, writes rows, and the scope ends by   *)
(* a normal close or by an exception raised in its body.                   *)

Backends == {"db", "fs"}
HarnessDepots == {1, 2}
HarnessGids == {1}
HarnessKinds == {"loose"}
\* the rows a client writes
HarnessRows == {record_one("a.txt", 1, SHA256(<<1>>)), record_one("b.txt", 1, SHA256(<<2>>))}
\* most rows written in one writer scope
MaxRows == 2

\* what index_reader of a backend yields: {rows}, or {} when it raises
\* because there is no row / no file
IndexVisible(b, depot, manifest, kind) ==
    IF b = "db"
    THEN IF HasIndex(index, depot, manifest, kind)
         THEN {index_reader(index, depot, manifest, kind)} ELSE {}
    ELSE IF fs_has_index(fs, depot, manifest, kind)
         THEN {fs_index_reader(fs, depot, manifest, kind)} ELSE {}

WriterOpen == "w" \in DOMAIN cl /\ cl["w"].st = "open"

\* with store.index_writer(depot, manifest, kind) as writer:
IndexWriterEnter(b, depot, manifest, kind) ==
    /\ ~WriterOpen
    /\ cl' = Put(cl, "w", [st |-> "open", backend |-> b, depot |-> depot,
                           manifest |-> manifest, kind |-> kind, buf |-> <<>>])
    /\ UNCHANGED <<durable, process, fs>>

\* writer.writerow(row): into the BytesIO / the temporary file
IndexWriterRow(row) ==
    /\ WriterOpen
    /\ Len(cl["w"].buf) < MaxRows
    /\ cl' = [cl EXCEPT !["w"].buf = Append(@, row)]
    /\ UNCHANGED <<durable, process, fs>>

\* the body raises: the statements after the yield are skipped (db), the
\* temporary file is removed (fs)
IndexWriterRaise ==
    /\ WriterOpen
    /\ cl' = [cl EXCEPT !["w"].st = "raised"]
    /\ UNCHANGED <<durable, process, fs>>

\* the body ends normally
IndexWriterExit ==
    /\ WriterOpen
    /\ LET w == cl["w"]
       IN IF w.backend = "db"
          THEN /\ index' = index_writer_commit(index, w.depot, w.manifest, w.kind, w.buf)
               /\ UNCHANGED fs
          ELSE /\ fs' = fs_index_writer_commit(fs, w.depot, w.manifest, w.kind, w.buf)
               /\ UNCHANGED index
    /\ cl' = [cl EXCEPT !["w"].st = "closed"]
    /\ UNCHANGED <<data, depot_fact, emdb, sha1db, process>>

NextIndex ==
    \/ \E b \in Backends, depot \in HarnessDepots, manifest \in HarnessGids,
          kind \in HarnessKinds : IndexWriterEnter(b, depot, manifest, kind)
    \/ \E row \in HarnessRows : IndexWriterRow(row)
    \/ IndexWriterRaise
    \/ IndexWriterExit

SpecIndex == Init /\ [][NextIndex]_vars

----------------------------------------------------------------------------
(* Object calls on both backends.  fs.data maps a digest to the bytes of   *)
(* the file data/<hh>/<digest>.bin.  A call's outcome is                   *)
(* [err, ret]: err names the exception ("none": returned), ret is the set  *)
(* holding the returned value (empty: None).                               *)

Returned(ret) == [err |-> "none", ret |-> ret]
Raised(err) == [err |-> err, ret |-> {}]

\* DatabaseStore.write_data: SELECT, then INSERT .. ON CONFLICT DO NOTHING
write_data(tbl, addr, d) == IF HasObject(tbl, addr) THEN tbl ELSE tbl \cup {StoredRow(addr, d)}

\* FilesystemStore.write_data
fs_write_data(f, addr, d) ==
    IF addr \in DOMAIN f.data THEN f ELSE [f EXCEPT !.data = Put(@, addr, d)]

\* FilesystemStore.read_data
fs_read_data(f, addr) == IF addr \in DOMAIN f.data THEN {f.data[addr]} ELSE {}

\* FilesystemStore has no list_missing_objects of its own: the body of
\* ArtifactStore.list_missing_objects runs and returns None
fs_list_missing_objects(f, addrs) == Returned({})

\* FilesystemStore has no attribute write_data_bulk
fs_write_data_bulk(f, batch) == Raised("AttributeError")

\* BatchQueue.flush(force=True) of a queue bound to a FilesystemStore:
\* len(missing_addrs) of None
fs_flush(f, batch) ==
    IF fs_list_missing_objects(f, DOMAIN batch).ret = {}
    THEN Raised("TypeError") ELSE Returned({})

\* the byte strings a client stores
HarnessBlobs == {<<1>>, <<2>>, <<7, 7, 7>>}
\* the batches a client hands to write_data_bulk / a queue
HarnessBatches == {[a \in {SHA256(d) : d \in B} |-> a.of] : B \in (SUBSET HarnessBlobs) \ {{}}}

\* the client records the call and what each backend did
Called(call, db, f) == Put(cl, "q", [call |-> call, db |-> db, fs |-> f])

\* store.write_data(sha256(d), d) on both backends
CallWriteData(d) ==
    /\ data' = write_data(data, SHA256(d), d)
    /\ fs' = fs_write_data(fs, SHA256(d), d)
    /\ cl' = Called("write_data", Returned({}), Returned({}))
    /\ UNCHANGED <<index, depot_fact, emdb, sha1db, process>>

\* store.read_data(addr) on both backends
CallReadData(addr) ==
    /\ cl' = Called("read_data", Returned(read_data(data, addr)), Returned(fs_read_data(fs, addr)))
    /\ UNCHANGED <<durable, process, fs>>

\* store.list_missing_objects(addrs) on both backends
CallListMissing(addrs) ==
    /\ cl' = Called("list_missing_objects", Returned({list_missing_objects(data, addrs)}),
                    fs_list_missing_objects(fs, addrs))
    /\ UNCHANGED <<durable, process, fs>>

\* with store.write_data_bulk() as bulk: bulk.store(addr, data) ...
CallWriteBulk(batch) ==
    /\ data' = write_data_bulk(data, batch)
    /\ cl' = Called("write_data_bulk", Returned({}), fs_write_data_bulk(fs, batch))
    /\ UNCHANGED <<index, depot_fact, emdb, sha1db, process, fs>>

\* a BatchQueue holding batch is flushed against each backend
CallFlush(batch) ==
    /\ data' = write_data_bulk(data, [a \in list_missing_objects(data, DOMAIN batch) |-> batch[a]])
    /\ cl' = Called("flush", Returned({}), fs_flush(fs, batch))
    /\ UNCHANGED <<index, depot_fact, emdb, sha1db, process, fs>>

NextStore ==
    \/ \E d \in HarnessBlobs : CallWriteData(d)
    \/ \E d \in HarnessBlobs : CallReadData(SHA256(d))
    \/ \E B \in (SUBSET HarnessBlobs) \ {{}} : CallListMissing({SHA256(d) : d \in B})
    \/ \E batch \in HarnessBatches : CallWriteBulk(batch)
    \/ \E batch \in HarnessBatches : CallFlush(batch)

SpecStore == Init /\ [][NextStore]_vars

----------------------------------------------------------------------------
(* Two runs that check-then-store one digest at the same time.  On the     *)
(* relational backend each run does what BatchQueue.flush does:            *)
(* list_missing_objects, then one write_data_bulk transaction (INSERT ..   *)
(* ON CONFLICT DO NOTHING, commit).  An INSERT of a key that another open  *)
(* transaction has inserted waits for that transaction.  On the filesystem *)
(* backend each run calls write_data: exists(), atomic_write to a          *)
(* temporary file, link to the final path.                                 *)

RaceProcs == {"p1", "p2"}
\* the digests raced for: the hash of <<1>>, and the all-zero digest packs
\* store different files under
RaceDigests == {SHA256(<<1>>), ZeroSHA256}
RaceBytes(addr) == IF addr = ZeroSHA256 THEN {<<22>>, <<7, 7, 7>>} ELSE {addr.of}

RaceIdle == \A p \in RaceProcs : p \in DOMAIN cl => cl[p].at = "done"

\* addr is inserted and not yet committed by a transaction other than p's
InsertWaits(p, addr) ==
    \E q \in RaceProcs \ {p} :
        q \in DOMAIN cl /\ cl[q].at = "commit" /\ \E r \in cl[q].pending : r.content_hash = addr

\* the INSERT has no ON CONFLICT clause
insert_outcome_unique_violation(tbl, addr) ==
    IF HasObject(tbl, addr) THEN "UniqueViolation" ELSE "none"

\* what INSERT .. ON CONFLICT DO NOTHING raises for a key
insert_outcome(tbl, addr) == "none"

\* the rows INSERT .. ON CONFLICT DO NOTHING adds to the transaction
insert_rows(tbl, addr, d) == IF HasObject(tbl, addr) THEN {} ELSE {StoredRow(addr, d)}

\* both runs start on one backend with the same digest
RaceStart(b, addr, d1, d2) ==
    /\ RaceIdle
    /\ cl' = [p \in RaceProcs |->
                [backend |-> b, addr |-> addr, d |-> IF p = "p1" THEN d1 ELSE d2,
                 at |-> "check", missing |-> {}, pending |-> {}, tmp |-> <<>>,
                 err |-> "none"]]
    /\ UNCHANGED <<durable, process, fs>>

\* missing_addrs = store.list_missing_objects(objects.keys())
RaceListMissing(p) ==
    /\ p \in DOMAIN cl /\ cl[p].at = "check" /\ cl[p].backend = "db"
    /\ cl' = [cl EXCEPT ![p].missing = list_missing_objects(data, {cl[p].addr}),
                        ![p].at = "store"]
    /\ UNCHANGED <<durable, process, fs>>

\* for addr in missing_addrs: bulk.store(addr, data)
RaceStore(p) ==
    /\ p \in DOMAIN cl /\ cl[p].at = "store" /\ cl[p].backend = "db"
    /\ IF cl[p].addr \in cl[p].missing
       THEN /\ ~InsertWaits(p, cl[p].addr)
            /\ cl' = [cl EXCEPT ![p].pending = insert_rows(data, cl[p].addr, cl[p].d),
                                ![p].err = insert_outcome(data, cl[p].addr),
                                ![p].at = "commit"]
       ELSE cl' = [cl EXCEPT ![p].at = "commit"]
    /\ UNCHANGED <<durable, process, fs>>

\* cur.connection.commit()
RaceCommit(p) ==
    /\ p \in DOMAIN cl /\ cl[p].at = "commit" /\ cl[p].backend = "db"
    /\ data' = data \cup cl[p].pending
    /\ cl' = [cl EXCEPT ![p].pending = {}, ![p].at = "done"]
    /\ UNCHANGED <<index, depot_fact, emdb, sha1db, process, fs>>

\* if not sub_path.exists():
RaceExists(p) ==
    /\ p \in DOMAIN cl /\ cl[p].at = "check" /\ cl[p].backend = "fs"
    /\ cl' = [cl EXCEPT ![p].at = IF fs_read_data(fs, cl[p].addr) # {} THEN "done" ELSE "store"]
    /\ UNCHANGED <<durable, process, fs>>

\* out_fh.write(file_data): into the temporary file
RaceWriteTemp(p) ==
    /\ p \in DOMAIN cl /\ cl[p].at = "store" /\ cl[p].backend = "fs"
    /\ cl' = [cl EXCEPT ![p].tmp = cl[p].d, ![p].at = "commit"]
    /\ UNCHANGED <<durable, process, fs>>

\* atomic_write commits with overwrite=False: link the temporary file to
\* the path; FileExistsError is caught by write_data
RaceLink(p) ==
    /\ p \in DOMAIN cl /\ cl[p].at = "commit" /\ cl[p].backend = "fs"
    /\ fs' = fs_write_data(fs, cl[p].addr, cl[p].tmp)
    /\ cl' = [cl EXCEPT ![p].tmp = <<>>, ![p].at = "done"]
    /\ UNCHANGED <<durable, process>>

NextRace ==
    \/ \E b \in Backends, addr \in RaceDigests :
          \E d1 \in RaceBytes(addr), d2 \in RaceBytes(addr) : RaceStart(b, addr, d1, d2)
    \/ \E p \in RaceProcs : RaceListMissing(p)
    \/ \E p \in RaceProcs : RaceStore(p)
    \/ \E p \in RaceProcs : RaceCommit(p)
    \/ \E p \in RaceProcs : RaceExists(p)
    \/ \E p \in RaceProcs : RaceWriteTemp(p)
    \/ \E p \in RaceProcs : RaceLink(p)

SpecRace == Init /\ [][NextRace]_vars

----------------------------------------------------------------------------
(* Clients of the extent map (LMDB).  A writer runs set_extent_hashes put  *)
(* by put inside its write transaction, which commits when the with block  *)
(* is left normally and is dropped when the process dies inside it; a      *)
(* reader scans the committed map in one read transaction                  *)
(* (get_extent_hashes); a third client calls set_sha256_from_sha1.         *)

BundleHashA == SHA256(Oodle(PayloadA))
BundleHashB == SHA256(Oodle(PayloadB))
BundleHashC == SHA256(Oodle(PayloadC))

\* the (keys, values) batches the writer is given
ExtentBatches ==
    { [keys |-> << <<BundleHashA, 0, 1>>, <<BundleHashA, 1, 1>> >>,
       values |-> << SHA256(<<11>>), SHA256(<<12>>) >>],
      [keys |-> << <<BundleHashC, 0, 1>>, <<BundleHashC, 1, 1>>, <<BundleHashA, 0, 2>> >>,
       values |-> << SHA256(<<15>>), SHA256(<<16>>), SHA256(<<11, 12>>) >>] }

\* the batches written before the scans: a third bundle, with an offset
\* whose packed form sorts below that of a smaller offset
ScanBatches ==
    ExtentBatches \cup
    { [keys |-> << <<BundleHashB, 256, 1>>, <<BundleHashB, 1, 1>> >>,
       values |-> << SHA256(<<13>>), SHA256(<<14>>) >>] }

\* every put is its own committed transaction
txn_put_autocommit(em, txn, key, value) == [em |-> Put(em, key, value), txn |-> txn]

\* txn.put(key, v) inside a write transaction: the committed map and the
\* transaction's own writes after the put
txn_put(em, txn, key, value) == [em |-> em, txn |-> Put(txn, key, value)]

\* commit of a write transaction
txn_commit(em, txn) ==
    [k \in (DOMAIN em) \cup (DOMAIN txn) |-> IF k \in DOMAIN txn THEN txn[k] ELSE em[k]]

\* struct.pack('<I', n)
PackLE32(n) ==
    <<n % 256, (n \div 256) % 256, (n \div 65536) % 256, (n \div 16777216) % 256>>

RECURSIVE BytesLess(_, _)
\* lexicographic order of byte strings, the order LMDB keeps its keys in
BytesLess(a, b) ==
    IF Len(b) = 0 THEN FALSE
    ELSE IF Len(a) = 0 THEN TRUE
    ELSE IF a[1] # b[1] THEN a[1] < b[1]
    ELSE BytesLess(Tail(a), Tail(b))

\* the order of two keys bundle_hash + pack('<II', offset, size): digests
\* have one width, so the digests decide unless they are equal
KeyLess(k1, k2) ==
    \/ BytesLess(k1[1].of, k2[1].of)
    \/ /\ k1[1] = k2[1]
       /\ BytesLess(PackLE32(k1[2]) \o PackLE32(k1[3]), PackLE32(k2[2]) \o PackLE32(k2[3]))

RECURSIVE SortedKeys(_)
\* the keys of the map in cursor order
SortedKeys(keys) ==
    IF keys = {} THEN <<>>
    ELSE LET m == CHOOSE k \in keys : \A o \in keys \ {k} : KeyLess(k, o)
         IN <<m>> \o SortedKeys(keys \ {m})

\* cur.set_range(key): the position of the first key >= key, 0 when there
\* is none and the cursor stays unpositioned
set_range(keys, key) ==
    LET ge == {i \in 1..Len(keys) : ~KeyLess(keys[i], key)}
    IN IF ge = {} THEN 0 ELSE CHOOSE i \in ge : \A j \in ge : i <= j

\* iter(cur): where the iteration starts; an unpositioned cursor is moved
\* to the first key of the database
iter_start(keys, pos) == IF pos = 0 THEN 1 ELSE pos

RECURSIVE ScanAll(_, _, _)
\* the loop that takes every entry up to the end of the database
ScanAll(em, keys, i) ==
    IF i > Len(keys) THEN <<>>
    ELSE <<<<keys[i], em[keys[i]]>>>> \o ScanAll(em, keys, i + 1)

RECURSIVE ScanBundle(_, _, _, _)
\* for k, v in iter(cur): if bh != bundle_hash: break; ret.append(...)
ScanBundle(em, keys, i, bhash) ==
    IF i > Len(keys) THEN <<>>
    ELSE IF keys[i][1] # bhash THEN <<>>
    ELSE <<<<keys[i], em[keys[i]]>>>> \o ScanBundle(em, keys, i + 1, bhash)

\* the scan does not stop at the first key of another bundle
get_extent_hashes_to_end(em, bhash) ==
    LET keys == SortedKeys(DOMAIN em)
    IN ScanAll(em, keys, iter_start(keys, set_range(keys, _extent_hash_key(bhash, 0, 0))))

\* get_extent_hashes(bundle_hash): the (key, value) pairs the range scan
\* returns, in order
get_extent_hashes(em, bhash) ==
    LET keys == SortedKeys(DOMAIN em)
    IN ScanBundle(em, keys,
                  iter_start(keys, set_range(keys, _extent_hash_key(bhash, 0, 0))), bhash)

ExtentWriterOpen == "x" \in DOMAIN cl /\ cl["x"].at = "put"

\* set_extent_hashes(keys, values): the write transaction begins
ExtentBegin(batch) ==
    /\ ~ExtentWriterOpen
    /\ cl' = Put(cl, "x", [at |-> "put", keys |-> batch.keys, values |-> batch.values,
                           k |-> 1, txn |-> EmptyMap])
    /\ UNCHANGED <<durable, process, fs>>

\* one iteration of: for k, v in zip(keys, values): txn.put(key, v)
ExtentPut ==
    /\ ExtentWriterOpen
    /\ cl["x"].k <= Len(cl["x"].keys)
    /\ LET x == cl["x"]
           key == _extent_hash_key(x.keys[x.k][1], x.keys[x.k][2], x.keys[x.k][3])
           res == txn_put(emdb, x.txn, key, x.values[x.k])
       IN /\ emdb' = res.em
          /\ cl' = [cl EXCEPT !["x"].txn = res.txn, !["x"].k = @ + 1]
    /\ UNCHANGED <<data, index, depot_fact, sha1db, process, fs>>

\* the with block is left: commit
ExtentCommit ==
    /\ ExtentWriterOpen
    /\ cl["x"].k > Len(cl["x"].keys)
    /\ emdb' = txn_commit(emdb, cl["x"].txn)
    /\ cl' = [cl EXCEPT !["x"].at = "done"]
    /\ UNCHANGED <<data, index, depot_fact, sha1db, process, fs>>

\* the writer dies inside the with block
ExtentAbort ==
    /\ ExtentWriterOpen
    /\ cl' = [cl EXCEPT !["x"].at = "aborted"]
    /\ UNCHANGED <<durable, process, fs>>

\* a reader scans the entries of one bundle
ExtentRead(bhash) ==
    /\ LET ret == get_extent_hashes(emdb, bhash)
       IN cl' = Put(cl, "r", [bundle |-> bhash, ret |-> ret,
                              seen |-> {ret[n] : n \in 1..Len(ret)}])
    /\ UNCHANGED <<durable, process, fs>>

\* the bundle digests readers ask for: the three bundles of the catalogue,
\* one digest below and one above every key of the map
ReadHashes == {BundleHashA, BundleHashB, BundleHashC, ZeroSHA256, SHA256(<<99>>)}

\* the keys a reader looks up alone
ReadKeys == {<<BundleHashA, 0, 1>>, <<BundleHashA, 0, 2>>, <<BundleHashB, 256, 1>>,
             <<BundleHashB, 0, 1>>, <<SHA256(<<99>>), 0, 1>>}

\* a reader calls get_extent_hash(bundle_hash, file_offset, file_size)
ExtentGet(key) ==
    /\ cl' = Put(cl, "k", [key |-> key,
                           got |-> get_extent_hash(emdb, key[1], key[2], key[3])])
    /\ UNCHANGED <<durable, process, fs>>

\* the SHA-1 / SHA-256 pairs a client hands to the bridge
BridgeSha1s == {SHA1(<<1>>), SHA1(<<2>>)}
BridgeSha256s == {SHA256(<<1>>), SHA256(<<2>>)}

\* bem.set_sha256_from_sha1(sha1, sha256)
BridgeSet(sha1, sha256) ==
    /\ sha1db' = set_sha256_from_sha1(sha1db, sha1, sha256)
    /\ UNCHANGED <<data, index, depot_fact, emdb, process, harness>>

NextExtent ==
    \/ \E batch \in ExtentBatches : ExtentBegin(batch)
    \/ ExtentPut
    \/ ExtentCommit
    \/ ExtentAbort
    \/ \E bhash \in {BundleHashA, BundleHashC} : ExtentRead(bhash)
    \/ \E sha1 \in BridgeSha1s, sha256 \in BridgeSha256s : BridgeSet(sha1, sha256)

SpecExtent == Init /\ [][NextExtent]_vars

\* writers and readers of the extent table alone
NextScan ==
    \/ \E batch \in ScanBatches : ExtentBegin(batch)
    \/ ExtentPut
    \/ ExtentCommit
    \/ ExtentAbort
    \/ \E bhash \in ReadHashes : ExtentRead(bhash)
    \/ \E key \in ReadKeys : ExtentGet(key)

SpecScan == Init /\ [][NextScan]_vars

----------------------------------------------------------------------------
(* The ordering and grouping steps of ingest_bundled on index bundles that *)
(* list the four file records of the catalogue in any order and declare    *)
(* any of two sizes for each of the three bundles.                         *)

\* uncompressed_size values a bundle record declares
HarnessSizes == {2^29, 2^30}

\* the orders the file records can be listed in, all four or all but one
\* (which leaves bundle B or C without a file when its only record is left out)
FileOrders ==
    UNION {{p \in [1..n -> 1..4] : \A i \in 1..n, j \in 1..n : p[i] = p[j] => i = j} :
              n \in 3..4}

\* an index bundle with the given sizes and order of file records
HarnessIndex(sizes, order) ==
    LET idx == BundleIndex(IndexBlob)
    IN [idx EXCEPT
          !.bundles = [b \in 1..Len(idx.bundles) |->
                         [idx.bundles[b] EXCEPT !.uncompressed_size = sizes[b]]],
          !.files = [k \in 1..Len(order) |-> idx.files[order[k]]]]

RECURSIVE RowOrder(_, _)
\* the file records in the order the first passes of all groups write
\* their index rows
RowOrder(groups, l2b) ==
    IF Len(groups) = 0 THEN <<>>
    ELSE [k \in 1..Len(GroupFrecs(groups[1].membs, l2b)) |->
            GroupFrecs(groups[1].membs, l2b)[k].frec]
         \o RowOrder(Tail(groups), l2b)

\* index = BundleIndex(index_file_data)
GroupsParse(sizes, order) ==
    /\ IF "g" \in DOMAIN cl THEN cl["g"].at = "done" ELSE TRUE
    /\ cl' = Put(cl, "g", [at |-> "parsed", index |-> HarnessIndex(sizes, order),
                           l2b |-> <<>>, bid_groups |-> <<>>, written |-> <<>>])
    /\ UNCHANGED <<durable, process, fs>>

\* l2 = sorted(...); l2b[frec.bundle_index].append(frec)
GroupsBucket ==
    /\ "g" \in DOMAIN cl /\ cl["g"].at = "parsed"
    /\ cl' = [cl EXCEPT !["g"].l2b = bucket_files(cl["g"].index), !["g"].at = "bucketed"]
    /\ UNCHANGED <<durable, process, fs>>

\* bid_groups = group_bundles()
GroupsPartition ==
    /\ "g" \in DOMAIN cl /\ cl["g"].at = "bucketed"
    /\ cl' = [cl EXCEPT !["g"].bid_groups = group_bundles(cl["g"].l2b, cl["g"].index.bundles),
                        !["g"].at = "grouped"]
    /\ UNCHANGED <<durable, process, fs>>

\* the loops over the groups, their bundles and their records
GroupsWrite ==
    /\ "g" \in DOMAIN cl /\ cl["g"].at = "grouped"
    /\ cl' = [cl EXCEPT !["g"].written = RowOrder(cl["g"].bid_groups, cl["g"].l2b),
                        !["g"].at = "done"]
    /\ UNCHANGED <<durable, process, fs>>

NextGroups ==
    \/ \E sizes \in [1..3 -> HarnessSizes], order \in FileOrders : GroupsParse(sizes, order)
    \/ GroupsBucket
    \/ GroupsPartition
    \/ GroupsWrite

SpecGroups == Init /\ [][NextGroups]_vars

----------------------------------------------------------------------------
(* The two container parsers on files that are not well-formed.  A bundle  *)
(* file is given by the fields of its header and by the payloads its       *)
(* compressed blocks decompress to; a pack file by its GGPK record and the *)
(* chunks that follow it.  The client parses one file at a time.           *)

MaxBlocks == 2
MaxChildren == 2

\* the bundle files handed to CompressedBundle
HarnessBundleFiles ==
    {[uncompressed_size |-> n, uncompressed_size2 |-> n2, block_count |-> c,
      uncompressed_block_granularity |-> g, blocks |-> bs] :
        n \in {0, 2, 3}, n2 \in {0, 2, 3}, c \in 0..MaxBlocks, g \in {2},
        bs \in {<<>>, <<<<1, 2>>>>, <<<<1, 2>>, <<3>>>>}}

\* CompressedBundle.__init__: the fields kept of the header, and the
\* block_count blocks that fh.read will return (empty past the end)
CompressedBundle(fh) ==
    [uncompressed_size |-> fh.uncompressed_size,
     uncompressed_block_granularity |-> fh.uncompressed_block_granularity,
     blocks |-> [i \in 1..fh.block_count |->
                   IF i <= Len(fh.blocks) THEN fh.blocks[i] ELSE <<>>]]

\* ooz.decompress(block, usize): the payload when it has usize bytes
ooz_decompress(payload, usize_nonneg, usize) ==
    IF usize_nonneg /\ Len(payload) = usize THEN Returned({payload})
    ELSE Raised("ooz")

RECURSIVE DecompressFrom(_, _, _)
\* the loop of decompress_all from block i (counted from 0), ret so far
DecompressFrom(cb, i, ret) ==
    IF i >= Len(cb.blocks) THEN Returned({ret})
    ELSE LET last == (i + 1 = Len(cb.blocks))
             g == cb.uncompressed_block_granularity
             r == IF last
                  THEN ooz_decompress(cb.blocks[i + 1], cb.uncompressed_size >= i * g,
                                      IF cb.uncompressed_size >= i * g
                                      THEN cb.uncompressed_size - i * g ELSE 0)
                  ELSE ooz_decompress(cb.blocks[i + 1], TRUE, g)
         IN IF r.err # "none" THEN r
            ELSE DecompressFrom(cb, i + 1, ret \o (CHOOSE p \in r.ret : TRUE))

\* CompressedBundle.decompress_all on a parsed header
CompressedBundle_decompress_all(cb) == DecompressFrom(cb, 0, <<>>)

\* CompressedBundle(fh)
BundleOpen(fh) ==
    /\ cl' = Put(cl, "f", [at |-> "open", fh |-> fh, cb |-> CompressedBundle(fh),
                           out |-> Returned({})])
    /\ UNCHANGED <<durable, process, fs>>

\* .decompress_all()
BundleDecompress ==
    /\ "f" \in DOMAIN cl /\ cl["f"].at = "open"
    /\ cl' = [cl EXCEPT !["f"].at = "done",
                        !["f"].out = CompressedBundle_decompress_all(cl["f"].cb)]
    /\ UNCHANGED <<durable, process, fs>>

\* the chunk offsets a PDIR entry may name: the start of a chunk, the
\* inside of a chunk, the end of the file
HarnessPointers == {100, 200, 150, 300}

\* a pack file: GGPK record, root directory, a file, and a third chunk
HarnessPack(version, kids, tag3) ==
    [header |-> [tag |-> "GGPK", version |-> version, child0 |-> 28, child1 |-> 0],
     chunks |-> << [offset |-> 28, tag |-> "PDIR", name |-> "", children |-> kids],
                   [offset |-> 100, tag |-> "FILE", name |-> "x.dat",
                    sha256 |-> SHA256(<<21>>), data |-> <<21>>],
                   [offset |-> 200, tag |-> tag3, name |-> "y.dat",
                    sha256 |-> SHA256(<<24>>), data |-> <<24>>] >>]

HarnessPacks ==
    {HarnessPack(version, kids, tag3) :
        version \in {3, 4},
        kids \in UNION {[1..n -> HarnessPointers] : n \in 0..MaxChildren},
        tag3 \in {"FILE", "FREE", "JUNK"}}

\* PackSource.__init__ raises: "Invalid GGPK chunk", "Invalid chunk tag"
PackSourceRaises(header, chunks) ==
    \/ header.tag # "GGPK"
    \/ header.version \notin {2, 3}
    \/ \E k \in 1..Len(chunks) : chunks[k].tag \notin {"PDIR", "FILE", "FREE"}

\* open_pack_source(fh)
PackOpen(pack) ==
    /\ cl' = Put(cl, "f", [at |-> "pack", fh |-> pack, cb |-> <<>>,
                           out |-> IF PackSourceRaises(pack.header, pack.chunks)
                                   THEN Raised("RuntimeError")
                                   ELSE Returned({PackSource(pack.header, pack.chunks)})])
    /\ UNCHANGED <<durable, process, fs>>

NextParse ==
    \/ \E fh \in HarnessBundleFiles : BundleOpen(fh)
    \/ BundleDecompress
    \/ \E pack \in HarnessPacks : PackOpen(pack)

SpecParse == Init /\ [][NextParse]_vars

----------------------------------------------------------------------------
(* Path decoder (ingest_bundled._generate_paths).  The region of a path    *)
(* rep is a run of commands: a 32-bit word, followed, unless the word is   *)
(* zero, by a NUL-terminated string.  The decoder is run on every command  *)
(* stream of up to MaxCmds commands, one loop iteration a step.            *)

MaxCmds == 6

\* the commands of the streams: the toggle, and strings that name the
\* first and the second base
PathCmds == {[cmd |-> 0, s |-> ""], [cmd |-> 1, s |-> "a"], [cmd |-> 2, s |-> "b"]}

RECURSIVE StreamsOf(_)
\* the command streams of exactly n commands
StreamsOf(n) ==
    IF n = 0 THEN {<<>>}
    ELSE {<<c>> \o t : c \in PathCmds, t \in StreamsOf(n - 1)}

PathStreams == UNION {StreamsOf(n) : n \in 0..MaxCmds}

\* the locals of _generate_paths when the loop starts; out is what it has
\* yielded, each string with the phase it was yielded in
generate_paths_start(stream) ==
    [at |-> "loop", stream |-> stream, slice |-> stream,
     base_phase |-> FALSE, bases |-> <<>>, out |-> <<>>]

\* the base array survives the entry into the base phase
generate_paths_step_keep_bases(st) ==
    LET cmd == st.slice[1].cmd
        s == IF cmd <= Len(st.bases) THEN st.bases[cmd] \o st.slice[1].s
             ELSE st.slice[1].s
    IN IF cmd = 0
       THEN [st EXCEPT !.slice = Tail(@), !.base_phase = ~@]
       ELSE IF st.base_phase
            THEN [st EXCEPT !.slice = Tail(@), !.bases = Append(@, s)]
            ELSE [st EXCEPT !.slice = Tail(@),
                            !.out = Append(@, [s |-> s, base_phase |-> st.base_phase])]

\* one iteration of "while len(slice)"
generate_paths_step(st) ==
    LET cmd == st.slice[1].cmd
        s == IF cmd <= Len(st.bases) THEN st.bases[cmd] \o st.slice[1].s
             ELSE st.slice[1].s
    IN IF cmd = 0
       THEN [st EXCEPT !.slice = Tail(@), !.base_phase = ~@,
                       !.bases = IF ~st.base_phase THEN <<>> ELSE @]
       ELSE IF st.base_phase
            THEN [st EXCEPT !.slice = Tail(@), !.bases = Append(@, s)]
            ELSE [st EXCEPT !.slice = Tail(@),
                            !.out = Append(@, [s |-> s, base_phase |-> st.base_phase])]

\* list(_generate_paths(rep, path_view)) is called on a stream
PathsCall(stream) ==
    /\ "d" \notin DOMAIN cl
    /\ cl' = [c \in {"d"} |-> generate_paths_start(stream)]
    /\ UNCHANGED <<durable, process, fs>>

PathsStep ==
    /\ "d" \in DOMAIN cl
    /\ cl["d"].at = "loop"
    /\ Len(cl["d"].slice) > 0
    /\ cl' = [cl EXCEPT !["d"] = generate_paths_step(@)]
    /\ UNCHANGED <<durable, process, fs>>

\* the slice is empty: the generator is exhausted
PathsReturn ==
    /\ "d" \in DOMAIN cl
    /\ cl["d"].at = "loop"
    /\ Len(cl["d"].slice) = 0
    /\ cl' = [cl EXCEPT !["d"].at = "done"]
    /\ UNCHANGED <<durable, process, fs>>

NextPaths ==
    \/ \E stream \in PathStreams : PathsCall(stream)
    \/ PathsStep
    \/ PathsReturn

SpecPaths == Init /\ [][NextPaths]_vars

----------------------------------------------------------------------------
(* PackSource.file_path, one loop iteration a step, on packs of a root     *)
(* directory, a directory Data and two files, whose directory entries name *)
(* any of the four chunks, and whose GGPK record names the root directory  *)
(* or a file.                                                              *)

MaxWalk == 4

WalkPointers == {28, 100, 200, 300}

WalkPack(child0, kids, kids2) ==
    [header |-> [tag |-> "GGPK", version |-> 3, child0 |-> child0, child1 |-> 0],
     chunks |-> << [offset |-> 28, tag |-> "PDIR", name |-> "", children |-> kids],
                   [offset |-> 100, tag |-> "FILE", name |-> "x.dat",
                    sha256 |-> SHA256(<<21>>), data |-> <<21>>],
                   [offset |-> 200, tag |-> "PDIR", name |-> "Data", children |-> kids2],
                   [offset |-> 300, tag |-> "FILE", name |-> "z.dat",
                    sha256 |-> SHA256(<<22>>), data |-> <<22>>] >>]

WalkPacks ==
    {WalkPack(child0, kids, kids2) :
        child0 \in {28, 100},
        kids \in UNION {[1..n -> WalkPointers] : n \in 0..MaxChildren},
        kids2 \in UNION {[1..n -> WalkPointers] : n \in 0..MaxChildren}}

\* file_path up to the loop: file = self.files[offset]; segments = [file.name]
file_path_start(pack, offset) ==
    [at |-> "walk", pack |-> pack, file |-> offset, offset |-> offset,
     segments |-> <<pack.files[offset].name>>,   \* kept root first
     dir_offset |-> {},                          \* None
     out |-> Returned({})]

\* one evaluation of "while dir_offset != self.root_offset" and, when it
\* holds, of the loop body; self.root_offset is an attribute only if the
\* scan met a PDIR at child0 or child1
file_path_step(st) ==
    IF st.pack.root_offset = {}
    THEN [st EXCEPT !.at = "done", !.out = Raised("AttributeError")]
    ELSE IF st.dir_offset = st.pack.root_offset
         THEN [st EXCEPT !.at = "done", !.out = Returned({Join(st.segments)})]
         ELSE IF st.offset \notin DOMAIN st.pack.parents
              THEN [st EXCEPT !.at = "done", !.out = Returned({})]
              ELSE LET dir_offset == st.pack.parents[st.offset]
                   IN [st EXCEPT !.dir_offset = {dir_offset},
                                 !.segments = <<st.pack.dirs[dir_offset].name>> \o @,
                                 !.offset = dir_offset]

\* pack.file_path(offset) is called on a parsed pack
FilePathCall(pack, offset) ==
    /\ "t" \notin DOMAIN cl
    /\ cl' = [c \in {"t"} |->
                file_path_start(PackSource(pack.header, pack.chunks), offset)]
    /\ UNCHANGED <<durable, process, fs>>

FilePathStep ==
    /\ "t" \in DOMAIN cl
    /\ cl["t"].at = "walk"
    /\ Len(cl["t"].segments) <= MaxWalk
    /\ cl' = [cl EXCEPT !["t"] = file_path_step(@)]
    /\ UNCHANGED <<durable, process, fs>>

NextWalk ==
    \/ \E pack \in WalkPacks, offset \in {100, 300} : FilePathCall(pack, offset)
    \/ FilePathStep

SpecWalk == Init /\ [][NextWalk]_vars

----------------------------------------------------------------------------
(* A BatchQueue with small budgets, or none, filled by a client that may   *)
(* queue the same bytes again, with plain or lazily loaded data.  The      *)
(* client record keeps the queue and the table each flush started from,    *)
(* the keys the flush asked the store about and the loaders it called.     *)

QueueSizeBudget == 4
QueueCountBudget == 3
MaxQueued == 4

\* Object(data=..., size=len): lazy when data is a callable
QueueObject(d, lazy) == [data |-> d, size |-> Len(d), lazy |-> lazy]

\* the loader of every queued object is called
flush_loads_every_object(q, tbl, force) ==
    IF ShouldFlush(q, force) THEN {a \in DOMAIN q.objects : q.objects[a].lazy} ELSE {}

\* flush: the addresses whose data is produced by "data = data()"
flush_loads(q, tbl, force) ==
    IF ShouldFlush(q, force)
    THEN {a \in list_missing_objects(tbl, DOMAIN q.objects) : q.objects[a].lazy}
    ELSE {}

\* flush: the arguments of its calls of store.list_missing_objects
flush_asked(q, force) ==
    IF ShouldFlush(q, force) THEN <<DOMAIN q.objects>> ELSE <<>>

\* what the client keeps of a call whose flush started from queue q
QueueCalled(call, q, force) ==
    [c \in {"b"} |-> [call |-> call, q |-> q, tbl |-> data,
                      flushed |-> ShouldFlush(q, force),
                      asked |-> flush_asked(q, force),
                      loads |-> flush_loads(q, data, force)]]

\* queue = BatchQueue(store, size_budget=..., count_budget=...)
QueueNew(size_budget, count_budget) ==
    /\ "b" \notin DOMAIN cl
    /\ queue' = BatchQueue(size_budget, count_budget)
    /\ cl' = QueueCalled("init", queue', FALSE)
    /\ UNCHANGED <<durable, pc, cur, rows, loc, fs>>

\* queue.store_one(sha256(d), Object(d or loader of d, len(d)))
QueueStoreOne(d, lazy) ==
    /\ "b" \in DOMAIN cl
    /\ queue.count_acc < MaxQueued
    /\ data' = store_one_data(queue, data, SHA256(d), QueueObject(d, lazy))
    /\ queue' = store_one_queue(queue, SHA256(d), QueueObject(d, lazy))
    /\ cl' = QueueCalled("store_one", enqueue(queue, SHA256(d), QueueObject(d, lazy)), FALSE)
    /\ UNCHANGED <<index, depot_fact, emdb, sha1db, pc, cur, rows, loc, fs>>

\* queue.flush()
QueueFlush ==
    /\ "b" \in DOMAIN cl
    /\ data' = flush_data(queue, data, TRUE)
    /\ queue' = flush_queue(queue, TRUE)
    /\ cl' = QueueCalled("flush", queue, TRUE)
    /\ UNCHANGED <<index, depot_fact, emdb, sha1db, pc, cur, rows, loc, fs>>

\* another client writes an object to the store
QueueOtherWrite(d) ==
    /\ "b" \in DOMAIN cl
    /\ ~HasObject(data, SHA256(d))
    /\ data' = write_data(data, SHA256(d), d)
    /\ cl' = [cl EXCEPT !["b"].call = "other"]
    /\ UNCHANGED <<index, depot_fact, emdb, sha1db, process, fs>>

NextQueue ==
    \/ QueueNew(QueueSizeBudget, QueueCountBudget)
    \/ QueueNew(0, 0)
    \/ \E d \in HarnessBlobs, lazy \in BOOLEAN : QueueStoreOne(d, lazy)
    \/ QueueFlush
    \/ \E d \in HarnessBlobs : QueueOtherWrite(d)

SpecQueue == Init /\ [][NextQueue]_vars

----------------------------------------------------------------------------
(* Properties *)

Facts(dm, fact) == has_depot_fact(depot_fact, dm.depot, dm.manifest, fact)

\* every row of the visible index of (dm, kind) names a stored object
RowsStored(dm, kind) ==
    \A k \in DOMAIN index_reader(index, dm.depot, dm.manifest, kind) :
        HasObject(data, FromHex(index_reader(index, dm.depot, dm.manifest, kind)[k].sha256))

\* the index of (dm, kind) has a row for digest d
IndexReferences(dm, kind, d) ==
    /\ HasIndex(index, dm.depot, dm.manifest, kind)
    /\ \E k \in DOMAIN index_reader(index, dm.depot, dm.manifest, kind) :
          index_reader(index, dm.depot, dm.manifest, kind)[k].sha256 = Hex(d)

\* the byte strings that are plain files (not the pack) of both sources
SharedFileBytes(dm1, dm2) ==
    {SourceFiles(dm1)[k].data : k \in
        {n \in 1..Len(SourceFiles(dm1)) :
            /\ PathName(SourceFiles(dm1)[n].path) # "Content.ggpk"
            /\ \E m \in 1..Len(SourceFiles(dm2)) :
                  /\ PathName(SourceFiles(dm2)[m].path) # "Content.ggpk"
                  /\ SourceFiles(dm2)[m].data = SourceFiles(dm1)[n].data}}

BundledPcs == {"bundled_call", "bundled_first", "bundled_setextents", "bundled_second",
               "bundled_flush", "bundled_commit", "bundled_setfact"}

\* C1: every stored object hashes to its key: SHA-256(bytes(o)) = key(o),
\* whatever loose and bundled ingests ran before.
C1_StoredObjectsHashToKey ==
    \A r \in data : \A d \in read_data(data, r.content_hash) : SHA256(d) = r.content_hash

\* C2: when two manifests that hold a file with the same bytes are both
\* loose-ingested, the store holds exactly one object under the digest of
\* those bytes and both loose indices reference the digest.
C2_StoredOnceReferencedTwice ==
    \A dm1 \in Manifests : \A dm2 \in Manifests \ {dm1} :
        (Facts(dm1, "loose_ingested") /\ Facts(dm2, "loose_ingested")) =>
            \A b \in SharedFileBytes(dm1, dm2) :
                /\ Cardinality({r \in data : r.content_hash = SHA256(b)}) = 1
                /\ IndexReferences(dm1, "loose", SHA256(b))
                /\ IndexReferences(dm2, "loose", SHA256(b))

C2_Witness ==
    /\ Facts(DM1, "loose_ingested")
    /\ Facts(DM2, "loose_ingested")
    /\ Facts(DM3, "loose_ingested")
    /\ SharedFileBytes(DM1, DM2) # {}

\* C3: index completeness: whenever an index of a (depot, manifest) is
\* visible to index_reader, every row's object is in the store.
C3_IndexCompleteness ==
    \A dm \in Manifests : \A kind \in {"loose", "bundled"} :
        HasIndex(index, dm.depot, dm.manifest, kind) => RowsStored(dm, kind)

C3_Witness ==
    /\ HasIndex(index, DM1.depot, DM1.manifest, "bundled")
    /\ Len(index_reader(index, DM1.depot, DM1.manifest, "bundled")) = 4
    /\ HasIndex(index, DM2.depot, DM2.manifest, "loose")
    /\ pc # "idle"

\* C4: extent-map soundness: every entry (B, off, len) -> F of the extent
\* map has F = SHA-256 of bytes [off, off+len) of the uncompressed payload
\* of the bundle whose digest is B.
C4_ExtentMapSound ==
    \A key \in DOMAIN emdb :
        emdb[key] = SHA256(Slice(decompress_all(key[1].of), key[2], key[2] + key[3]))

\* entries of all three bundles, two of them in one group
C4_Witness ==
    /\ Cardinality({key[1] : key \in DOMAIN emdb}) = 3
    /\ Cardinality(DOMAIN emdb) = 4

\* C5: a set <kind>_ingested fact implies that the index of that kind
\* exists and every object it references is stored, also for manifests
\* without Bundles2/_.index.bin.
C5_FactImpliesIndex ==
    \A dm \in Manifests :
        /\ Facts(dm, "loose_ingested") =>
              HasIndex(index, dm.depot, dm.manifest, "loose") /\ RowsStored(dm, "loose")
        /\ Facts(dm, "bundled_ingested") =>
              HasIndex(index, dm.depot, dm.manifest, "bundled") /\ RowsStored(dm, "bundled")

\* C6: in bundled ingest, no object is enqueued or uploaded before the new
\* extent-map entries of the group at hand are in the extent map.
C6_ExtentsBeforeObjects ==
    [][(/\ loc.fn = "ingest_bundled"
        /\ \/ ~(DOMAIN queue'.objects \subseteq DOMAIN queue.objects)
           \/ data' # data)
       => \A k \in 1..Len(loc.new_bem_keys) :
             /\ loc.new_bem_keys[k] \in DOMAIN emdb
             /\ emdb[loc.new_bem_keys[k]] = loc.new_bem_values[k]]_vars

\* the second pass of a group with new extents has enqueued objects
C6_Witness ==
    /\ loc.fn = "ingest_bundled"
    /\ pc \in {"bundled_first", "bundled_flush"}
    /\ Len(loc.new_bem_keys) > 0
    /\ DOMAIN queue.objects # {}

\* C7 as stated: after an abort at any step (the process is idle again)
\* every extent-map value is the key of a stored object.
C7_AbortLeavesNoDanglingExtent ==
    pc = "idle" => \A key \in DOMAIN emdb : HasObject(data, emdb[key])

\* C7 amended: a run of ingest_bundled that got past its final flush has
\* an extent-map entry for every file record of its index bundle, and the
\* digest of each entry is the key of a stored object.
C7_FlushedRunHasNoDanglingExtent ==
    (loc.fn = "ingest_bundled" /\ pc \in {"bundled_commit", "bundled_setfact"}) =>
        \A k \in 1..Len(loc.index.files) :
            LET f == loc.index.files[k]
                key == _extent_hash_key(bundle_hash(loc, f.bundle_index),
                                        f.file_offset, f.file_size)
            IN /\ key \in DOMAIN emdb
               /\ HasObject(data, emdb[key])

\* a run past its final flush that found the extents of its last group in
\* the map: an earlier run wrote them and did not finish
C7_Witness ==
    /\ loc.fn = "ingest_bundled"
    /\ pc = "bundled_commit"
    /\ Len(loc.index.files) > 0
    /\ Len(loc.new_bem_keys) = 0

\* C8: loose_ingested is set only by a run whose loose index is committed
\* with the rows of that run and whose rows all name stored objects; a run
\* that raises or is aborted never sets it.
C8_FactAfterIndexAndObjects ==
    [][\A dm \in Manifests :
          (~Facts(dm, "loose_ingested")
           /\ has_depot_fact(depot_fact', dm.depot, dm.manifest, "loose_ingested"))
          => /\ pc = "loose_setfact"
             /\ cur = dm
             /\ HasIndex(index, dm.depot, dm.manifest, "loose")
             /\ index_reader(index, dm.depot, dm.manifest, "loose") = rows
             /\ RowsStored(dm, "loose")]_vars

C8_Witness ==
    /\ Facts(DM1, "loose_ingested")
    /\ Len(index_reader(index, DM1.depot, DM1.manifest, "loose")) = 5
    /\ Facts(DM2, "loose_ingested")

\* C9: a phase called for a (depot, manifest) whose completion fact is set
\* returns at once: store, indices, extent map, bridge and facts stay as
\* they are.
C9_PhasesReentrant ==
    [][/\ (pc = "loose_call" /\ Facts(cur, "loose_ingested"))
          => (pc' = "idle" /\ UNCHANGED durable)
       /\ (pc = "bundled_call" /\ Facts(cur, "bundled_ingested"))
          => (pc' = "idle" /\ UNCHANGED durable)]_vars

\* the loose phase is called again for a manifest both phases completed
C9_Witness ==
    /\ pc = "loose_call"
    /\ Facts(cur, "loose_ingested")
    /\ Facts(cur, "bundled_ingested")
    /\ HasIndex(index, cur.depot, cur.manifest, "bundled")

\* C10: the bundled phase changes nothing (no index, no object, no extent,
\* no fact) for a (depot, manifest) that lacks loose_ingested or
\* has_bundles.
C10_BundledNeedsBothFacts ==
    [][(/\ pc \in BundledPcs
        /\ ~(Facts(cur, "loose_ingested") /\ Facts(cur, "has_bundles")))
       => UNCHANGED <<data, index, depot_fact, emdb>>]_vars

\* the index kind the running ingest function writes
RunKind == IF loc.fn = "ingest_source" THEN "loose" ELSE "bundled"

\* C11: idempotence: a run of ingest_source / ingest_bundled for a
\* (depot, manifest) whose index of that kind was committed by an earlier
\* run on the same inputs commits the same sequence of rows again and adds
\* no object, no extent-map entry and no bridge entry.
C11_SecondRunIdempotent ==
    [][(/\ loc.fn \in {"ingest_source", "ingest_bundled"}
        /\ HasIndex(index, cur.depot, cur.manifest, RunKind))
       => /\ index' = index
          /\ data' = data
          /\ emdb' = emdb
          /\ sha1db' = sha1db]_vars

\* the index the open writer's own key yields
OwnIndexVisible == IndexVisible(cl["w"].backend, cl["w"].depot, cl["w"].manifest, cl["w"].kind)

\* C12: an index is emitted atomically on both backends: while a writer
\* scope is open and when its body raises, index_reader of the scope's
\* (depot, manifest, kind) yields what it yielded before (the earlier
\* index, or none); when the scope closes normally it yields exactly the
\* rows written in the scope.
C12_IndexAtomic ==
    [][WriterOpen =>
          /\ cl'["w"].st \in {"open", "raised"} => OwnIndexVisible' = OwnIndexVisible
          /\ cl'["w"].st = "closed" => OwnIndexVisible' = {cl["w"].buf}]_vars

\* a scope that raised after it wrote rows, with an earlier index of two
\* rows still visible on the filesystem backend and one on the relational
C12_Witness ==
    /\ "w" \in DOMAIN cl
    /\ cl["w"].st = "raised"
    /\ cl["w"].backend = "fs"
    /\ Len(cl["w"].buf) = 1
    /\ \E rs \in OwnIndexVisible : Len(rs) = 2 /\ rs[1] # cl["w"].buf[1]
    /\ \E d \in HarnessDepots, m \in HarnessGids, k \in HarnessKinds :
          IndexVisible("db", d, m, k) # {}

\* C13: depot and manifest together key an index on both backends: a
\* writer scope of (d1, m, kind) leaves what index_reader yields for every
\* other (depot, manifest, kind) as it was, and after a normal close
\* index_reader of (d1, m, kind) yields the rows written.
C13_DepotAndManifestKey ==
    [][WriterOpen =>
          /\ \A depot \in HarnessDepots, manifest \in HarnessGids, kind \in HarnessKinds :
                <<depot, manifest, kind>> # <<cl["w"].depot, cl["w"].manifest, cl["w"].kind>>
                => IndexVisible(cl["w"].backend, depot, manifest, kind)'
                     = IndexVisible(cl["w"].backend, depot, manifest, kind)
          /\ cl'["w"].st = "closed" => OwnIndexVisible' = {cl["w"].buf}]_vars

\* C14: both backends implement the store interface: every call of
\* write_data_bulk, list_missing_objects, read_data (and the flush built
\* on them) returns on both backends, with the same result.
C14_BackendsEquivalent ==
    "q" \in DOMAIN cl =>
        /\ cl["q"].db.err = "none"
        /\ cl["q"].fs.err = "none"
        /\ cl["q"].db.ret = cl["q"].fs.ret

\* a run that can take its next step
RaceCanStep(p) ==
    /\ cl[p].at # "done"
    /\ ~(cl[p].backend = "db" /\ cl[p].at = "store" /\ cl[p].addr \in cl[p].missing
         /\ InsertWaits(p, cl[p].addr))

\* the complete writes of a digest
CompleteWrites(addr) == {StoredRow(addr, d) : d \in RaceBytes(addr)}

\* C15: two runs that check-then-store the same digest concurrently: no
\* run gets an error, a run that is not finished is never stuck behind the
\* other for good, the digest is never present twice, and once both runs
\* are finished it is present once with the bytes of one complete write.
C15_ConcurrentWritersTolerated ==
    (\A p \in RaceProcs : p \in DOMAIN cl) =>
        LET addr == cl["p1"].addr
        IN /\ \A p \in RaceProcs : cl[p].err = "none"
           /\ (~RaceIdle) => \E p \in RaceProcs : RaceCanStep(p)
           /\ Cardinality({r \in data : r.content_hash = addr}) <= 1
           /\ \A r \in data : r.content_hash = addr => r \in CompleteWrites(addr)
           /\ \A d \in fs_read_data(fs, addr) : d \in RaceBytes(addr)
           /\ RaceIdle =>
                 IF cl["p1"].backend = "db"
                 THEN Cardinality({r \in data : r.content_hash = addr}) = 1
                 ELSE fs_read_data(fs, addr) # {}

\* both runs found the digest missing, both are finished, on a digest the
\* two runs hold different bytes for, and the other backend has seen a
\* race as well
C15_Witness ==
    /\ \A p \in RaceProcs : p \in DOMAIN cl /\ cl[p].at = "done" /\ cl[p].backend = "db"
    /\ \A p \in RaceProcs : cl[p].addr \in cl[p].missing
    /\ cl["p1"].d # cl["p2"].d
    /\ DOMAIN fs.data # {}

\* the entries of a batch, as (key, value) pairs
BatchEntries(batch) ==
    {<<_extent_hash_key(batch.keys[k][1], batch.keys[k][2], batch.keys[k][3]), batch.values[k]>> :
        k \in 1..Len(batch.keys)}

\* none or all of the entries of every batch are among the pairs
NoneOrAll(pairs) ==
    \A batch \in ExtentBatches :
        \/ BatchEntries(batch) \cap pairs = {}
        \/ BatchEntries(batch) \subseteq pairs

\* C16: set_extent_hashes is an atomic bulk insert: the committed extent
\* map, and every scan a reader made of it in one read transaction, holds
\* none or all of the entries of a batch, also while the batch is being
\* written and after the writer died in the middle of it.
C16_PutExtentsAtomic ==
    /\ NoneOrAll({<<k, emdb[k]>> : k \in DOMAIN emdb})
    /\ "r" \in DOMAIN cl =>
          \A batch \in ExtentBatches :
              LET mine == {e \in BatchEntries(batch) : e[1][1] = cl["r"].bundle}
              IN (mine \cap cl["r"].seen = {}) \/ (mine \subseteq cl["r"].seen)

\* one batch is committed, the writer of the other died after two of its
\* three puts, and a reader has scanned a bundle both batches have entries of
C16_Witness ==
    /\ "x" \in DOMAIN cl /\ cl["x"].at = "aborted" /\ cl["x"].k = 3
    /\ Cardinality(DOMAIN emdb) = 2
    /\ "r" \in DOMAIN cl /\ Cardinality(cl["r"].seen) = 2

\* C17: the SHA-1 bridge is monotonic: no step changes the SHA-256 an
\* entry of the bridge holds for a SHA-1.
C17_BridgeMonotonic ==
    [][\A h \in DOMAIN sha1db : h \in DOMAIN sha1db' /\ sha1db'[h] = sha1db[h]]_vars

\* the object a bridge entry h1 -> h2 stands for is in the store
BridgedObjectStored(h1) ==
    \E d \in read_data(data, sha1db[h1]) : SHA1(d) = h1

C19_BundledRowsAscending ==
    ("g" \in DOMAIN cl /\ cl["g"].at = "done") =>
        LET w == cl["g"].written
        IN /\ Len(w) = Len(cl["g"].index.files)
           /\ \A k \in 1..Len(cl["g"].index.files) :
                 \E n \in 1..Len(w) : w[n] = cl["g"].index.files[k]
           /\ \A i \in 1..Len(w), j \in 1..Len(w) :
                 i < j => ~TupleLess(FileKey(w[j]), FileKey(w[i]))

\* an index bundle that lists its records in descending order, split into
\* two groups
C19_Witness ==
    /\ "g" \in DOMAIN cl /\ cl["g"].at = "done"
    /\ Len(cl["g"].bid_groups) = 2
    /\ Len(cl["g"].index.files) = 4
    /\ \A i \in 1..3 : TupleLess(FileKey(cl["g"].index.files[i + 1]),
                                 FileKey(cl["g"].index.files[i]))

\* C20: every group of the bundle partition has cumulative
\* uncompressed_size <= 1 GiB and cumulative file count <= 100 000, when
\* every single bundle is within those limits.
C20_GroupsWithinLimits ==
    ("g" \in DOMAIN cl /\ cl["g"].at \in {"grouped", "done"}) =>
        \A k \in 1..Len(cl["g"].bid_groups) :
            /\ cl["g"].bid_groups[k].size <= max_size
            /\ cl["g"].bid_groups[k].count <= max_count

\* the rows of every committed index of the relational store
CommittedRows(kind) ==
    UNION {{index[k][n] : n \in 1..Len(index[k])} : k \in {x \in DOMAIN index : x[2] = kind}}

\* C22: every row of the loose index and every row of the bundled index has
\* the same shape: path, sha256, size, and phash serialized as a string
\* holding the decimal fingerprint.
C22_RowsSameShape ==
    \A r \in CommittedRows("loose") \cup CommittedRows("bundled") :
        /\ DOMAIN r = {"path", "sha256", "phash", "size"}
        /\ r.phash.t = "str"

\* C27: a packed file whose stored SHA-256 is all zero gets no loose-index
\* row and no object is stored for it.
C27_ZeroDigestSkipped ==
    /\ \A r \in CommittedRows("loose") : r.sha256 # Hex(ZeroSHA256)
    /\ pc \in {"loose_flush", "loose_commit", "loose_setfact"} =>
          \A n \in 1..Len(rows) : rows[n].sha256 # Hex(ZeroSHA256)
    /\ ~HasObject(data, ZeroSHA256)

\* the entries of the committed map whose key begins with the digest
EntriesOf(bhash) == {<<k, emdb[k]>> : k \in {x \in DOMAIN emdb : x[1] = bhash}}

\* C30: get_extent_hashes(B) returns exactly the entries whose key begins
\* with B, each once, whatever the map holds, also when B has no entry and
\* when no key >= B||0||0 exists; get_extent_hash(B, off, len) returns the
\* value of exactly that key or nothing.
C30_RangeScanExact ==
    /\ \A bhash \in ReadHashes :
          LET ret == get_extent_hashes(emdb, bhash)
          IN /\ {ret[n] : n \in 1..Len(ret)} = EntriesOf(bhash)
             /\ Len(ret) = Cardinality(EntriesOf(bhash))
    /\ \A key \in ReadKeys :
          get_extent_hash(emdb, key[1], key[2], key[3]) =
             {e[2] : e \in {x \in EntriesOf(key[1]) : x[1] = key}}

\* a reader scanned a digest above every key of a map that holds entries
\* of three bundles, and got nothing; another looked up a key of the map
C30_Witness ==
    /\ "r" \in DOMAIN cl /\ cl["r"].bundle = SHA256(<<99>>) /\ cl["r"].seen = {}
    /\ {k[1] : k \in DOMAIN emdb} = {BundleHashA, BundleHashB, BundleHashC}
    /\ "k" \in DOMAIN cl /\ cl["k"].key \in DOMAIN emdb /\ cl["k"].got = {emdb[cl["k"].key]}

\* the bytes of inner file x = [bid, frec] of the running bundled ingest
InnerSlice(x) ==
    Slice(decompress_all(bundle_hash(loc, x.bid).of),
          x.frec.file_offset, x.frec.file_offset + x.frec.file_size)

\* every file record of the index bundle of the running bundled ingest
AllFrecs ==
    GroupFrecs([b \in 1..Len(loc.index.bundles) |-> b - 1], loc.l2b)

\* C23: after a run of bundled ingest, also one that found extent-map
\* entries whose digest was absent from the store, the map entry of every
\* inner file equals the SHA-256 of its slice of the bundle and the object
\* stored under that digest is the slice.
C23_StaleExtentRecovered ==
    (loc.fn = "ingest_bundled" /\ pc \in {"bundled_commit", "bundled_setfact"}) =>
        \A n \in 1..Len(AllFrecs) :
            LET x == AllFrecs[n]
                key == _extent_hash_key(bundle_hash(loc, x.bid),
                                        x.frec.file_offset, x.frec.file_size)
            IN /\ key \in DOMAIN emdb
               /\ emdb[key] = SHA256(InnerSlice(x))
               /\ read_data(data, emdb[key]) = {InnerSlice(x)}

\* the rows of the committed bundled index of a manifest
BundledRows(dm) ==
    IF HasIndex(index, dm.depot, dm.manifest, "bundled")
    THEN index_reader(index, dm.depot, dm.manifest, "bundled")
    ELSE <<>>

\* the bundled ingest in progress reads an index bundle of the legacy hasher
LegacyRun ==
    /\ loc.fn = "ingest_bundled"
    /\ legacy_hash_dir_path("Art") \in
          {loc.index.path_reps[k].hash : k \in 1..Len(loc.index.path_reps)}

\* C21: when the legacy hasher is the input hasher, every phash emitted in
\* the bundled index is the modern fingerprint of the row's path and not
\* its legacy fingerprint, while the row's file record carries the legacy
\* fingerprint of that path.
C21_LegacyInputModernOutput ==
    /\ LegacyRun =>
          /\ Len(rows) <= Len(AllFrecs)
          /\ \A n \in 1..Len(rows) :
                /\ rows[n].phash.v = modern_hash_file_path(rows[n].path)
                /\ rows[n].phash.v # legacy_hash_file_path(rows[n].path)
                /\ AllFrecs[n].frec.path_hash = legacy_hash_file_path(rows[n].path)
    /\ \A n \in 1..Len(BundledRows(DM4)) :
          BundledRows(DM4)[n].phash.v = modern_hash_file_path(BundledRows(DM4)[n].path)

\* the bundled index of the legacy manifest is committed with one row per
\* file record
C21_Witness ==
    /\ Len(BundledRows(DM4)) = 4
    /\ pc = "bundled_setfact" /\ cur = DM4 /\ LegacyRun /\ Len(rows) = 4

\* the hashes of the path regions of an index bundle
RepHashes(idx) == {idx.path_reps[k].hash : k \in 1..Len(idx.path_reps)}

\* the paths of the path regions of an index bundle
RepPaths(idx) ==
    UNION {{idx.path_reps[k].paths[n] : n \in 1..Len(idx.path_reps[k].paths)} :
              k \in 1..Len(idx.path_reps)}

\* C26: a path_rep hash equal to the legacy hash_dir("Art") makes the input
\* hasher legacy and the output hasher modern; otherwise one equal to the
\* modern hash_dir("Art") makes both modern; when neither matches, building
\* the path table fails and no bundled index is committed.
C26_HashAlgorithmDetection ==
    /\ detect_hasher({legacy_hash_dir_path("Art"), modern_hash_dir_path("Art")}) = "legacy"
    /\ loc.fn = "ingest_bundled" =>
          LET reps == RepHashes(loc.index)
              t == loc.path_hashes
              ins(p) == IF legacy_hash_dir_path("Art") \in reps
                        THEN legacy_hash_file_path(p) ELSE modern_hash_file_path(p)
          IN /\ legacy_hash_dir_path("Art") \in reps \/ modern_hash_dir_path("Art") \in reps
             /\ DOMAIN t.path_by_ihash = {ins(p) : p \in RepPaths(loc.index)}
             /\ \A p \in RepPaths(loc.index) :
                   /\ t.path_by_ihash[ins(p)] = p
                   /\ t.ohash_by_ihash[ins(p)] = modern_hash_file_path(p)
    /\ ~HasIndex(index, DM5.depot, DM5.manifest, "bundled")
    /\ ~Facts(DM5, "bundled_ingested")

\* bundled indices of a legacy and of a modern manifest are committed, and
\* bundled ingest of the manifest of the unknown algorithm has been called
\* after its loose ingest and has ended
C26_Witness ==
    /\ Len(BundledRows(DM4)) = 4
    /\ Len(BundledRows(DM1)) = 4
    /\ Facts(DM5, "loose_ingested")
    /\ pc = "bundled_first" /\ cur = DM1 /\ loc.path_hashes.kind = "modern"

\* C28: bundled ingest of a source that holds only an index bundle with
\* zero bundles, zero files and zero path regions completes and commits a
\* bundled index with zero rows.
C28_EmptyIndexCommitted ==
    [][(pc = "bundled_call" /\ cur = DM6 /\ ~BundledSkips(depot_fact, cur))
          => pc' # "idle"]_vars

\* the manifest entry has a SHA-1 the bridge resolves to a digest whose
\* object the store lacks
BridgedAbsent(e) ==
    /\ Len(e.sha1) > 0
    /\ PathName(e.path) # "Content.ggpk"
    /\ e.sha1[1] \in DOMAIN sha1db
    /\ ~HasObject(data, sha1db[e.sha1[1]])

\* C29: when the bridge resolves an entry's SHA-1 and the object of the
\* bridged digest is absent from the store, loose ingest stores the
\* entry's source bytes under the bridged digest, and no step of the run
\* changes the bridge entry.
C29_BridgeHitRepopulatesStore ==
    [][loc.fn = "ingest_source" =>
          /\ (pc = "loose_entries" /\ pc' = "loose_deferred") =>
                \A k \in 1..Len(loc.by_index) :
                    BridgedAbsent(loc.by_index[k]) =>
                        read_data(data', sha1db[loc.by_index[k].sha1[1]]) =
                            {source_read(cur, loc.by_index[k].path)}
          /\ \A h \in DOMAIN sha1db : h \in DOMAIN sha1db' /\ sha1db'[h] = sha1db[h]]_vars

\* the loop over the manifest entries has ended with an entry resolved by
\* the bridge whose object the store lacks
C29_Witness ==
    /\ loc.fn = "ingest_source"
    /\ pc = "loose_entries"
    /\ loc.i > Len(loc.by_index)
    /\ \E k \in 1..Len(loc.by_index) :
          /\ BridgedAbsent(loc.by_index[k])
          /\ sha1db[loc.by_index[k].sha1[1]] \in DOMAIN loc.has_addr

RECURSIVE SumLen(_)
\* the total length of a sequence of byte strings
SumLen(seqs) == IF Len(seqs) = 0 THEN 0 ELSE Len(seqs[1]) + SumLen(Tail(seqs))

\* the header of a bundle file contradicts itself or the blocks it announces
HeaderInconsistent(fh) ==
    \/ fh.uncompressed_size2 # fh.uncompressed_size
    \/ fh.uncompressed_size # SumLen(CompressedBundle(fh).blocks)

\* C24: a bundle whose header fails self-consistency (uncompressed_size_2
\* differs from uncompressed_size, or uncompressed_size differs from the
\* sum of the per-block output sizes, as with block_count = 0 and a
\* non-zero size) is rejected with an error instead of yielding a payload.
C24_CorruptBundleRejected ==
    ("f" \in DOMAIN cl /\ cl["f"].at = "done" /\ HeaderInconsistent(cl["f"].fh))
        => cl["f"].out.err # "none"

\* the offsets at which a chunk of the pack starts
ChunkStarts(pack) == {pack.chunks[k].offset : k \in 1..Len(pack.chunks)}

\* a chunk has an unrecognized tag, or a PDIR names a child that is not
\* the start of a chunk
PackCorrupt(pack) ==
    \/ \E k \in 1..Len(pack.chunks) : pack.chunks[k].tag \notin {"PDIR", "FILE", "FREE"}
    \/ \E k \in 1..Len(pack.chunks) :
          /\ pack.chunks[k].tag = "PDIR"
          /\ \E n \in 1..Len(pack.chunks[k].children) :
                pack.chunks[k].children[n] \notin ChunkStarts(pack)

\* C25: a pack with a chunk of unrecognized tag, or with a PDIR child
\* pointer that does not point at the start of a chunk inside the file, is
\* rejected with an error when it is parsed.
C25_CorruptPackRejected ==
    ("f" \in DOMAIN cl /\ cl["f"].at = "pack" /\ PackCorrupt(cl["f"].fh))
        => cl["f"].out.err # "none"

\* C31: the object the second pass of a group enqueues for an inner digest
\* the store lacks holds the slice [offset, offset + size) of the
\* uncompressed payload of the bundle the digest's file record belongs to,
\* also for a bundle the first pass did not decompress.
C31_SecondPassSlicesOwnBundle ==
    [][(pc = "bundled_second" /\ pc' \in {"bundled_first", "bundled_flush"}) =>
          \A a \in list_missing_objects(data, DOMAIN loc.found_fhashes_bin) :
              LET ext == loc.found_fhashes_bin[a]
              IN /\ a \in DOMAIN queue'.objects
                 /\ queue'.objects[a].data =
                        Slice(decompress_all(bundle_hash(loc, ext[1]).of),
                              ext[2], ext[2] + ext[3])]_vars

\* how many times digest h occurs in the sequence s
Occurrences(s, h) == Cardinality({k \in 1..Len(s) : s[k] = h})

\* C32: during one bundled ingest run every outer bundle is read from the
\* store and decompressed at most once.
C32_BundleReadAtMostOnce ==
    loc.fn = "ingest_bundled" =>
        \A k \in 1..Len(loc.reads) : Occurrences(loc.reads, loc.reads[k]) <= 1

\* the digests read_data was asked for by the step just taken
NewReads == {loc'.reads[k] : k \in (Len(loc.reads) + 1)..Len(loc'.reads)}

\* bundle h of the group at hand has an inner file that missed the extent
\* map in the first pass, or an inner digest the store reports missing
BundleNeeded(h) ==
    \/ \E k \in 1..Len(loc'.new_bem_keys) : loc'.new_bem_keys[k][1] = h
    \/ \E a \in list_missing_objects(data, DOMAIN loc.found_fhashes_bin) :
          bundle_hash(loc, loc.found_fhashes_bin[a][1]) = h

\* C33: a bundle is read and decompressed only if one of its inner files
\* misses the extent map or one of its inner digests is missing from the
\* store; when every extent of a group hits and no digest is missing, no
\* bundle is read and the extent map is not written.
C33_NoEagerDecompression ==
    [][(loc.fn = "ingest_bundled" /\ loc'.fn = "ingest_bundled") =>
          /\ pc = "bundled_first" =>
                \A h \in NewReads :
                    \E k \in 1..Len(loc'.new_bem_keys) : loc'.new_bem_keys[k][1] = h
          /\ pc = "bundled_second" => \A h \in NewReads : BundleNeeded(h)
          /\ pc \notin {"bundled_first", "bundled_second"} => NewReads = {}
          /\ (pc = "bundled_setextents" /\ Len(loc.new_bem_keys) = 0) => emdb' = emdb]_vars

\* the entries whose bytes the step just taken of loose ingest read
NewSourceReads == {loc'.reads[k] : k \in (Len(loc.reads) + 1)..Len(loc'.reads)}

\* C34: in loose ingest the bytes of a manifest entry whose SHA-1 the bridge
\* resolves to a digest present in the store are never read from the source;
\* bytes are read only for bridged entries reported missing, in the bulk
\* step, and for deferred entries, and no entry is read twice.
C34_LooseReadsOnlyGaps ==
    [][(loc.fn = "ingest_source" /\ loc'.fn = "ingest_source") =>
          /\ (pc = "loose_entries" /\ pc' = "loose_deferred") =>
                \A k \in 1..Len(loc.by_index) :
                    LET h == entry_sha256hash(sha1db, loc.by_index[k])
                    IN /\ k \in NewSourceReads =>
                            /\ h # {}
                            /\ \A a \in h : ~HasObject(data, a)
                       /\ (h # {} /\ \A a \in h : HasObject(data, a)) =>
                            k \notin NewSourceReads
          /\ (pc = "loose_deferred" /\ pc' = "loose_deferred") =>
                NewSourceReads = {loc.missing_addr[loc.j]}
          /\ ~(pc = "loose_entries" /\ pc' = "loose_deferred")
                /\ ~(pc = "loose_deferred" /\ pc' = "loose_deferred") =>
                NewSourceReads = {}
          /\ \A k \in 1..Len(loc'.reads) : Occurrences(loc'.reads, loc'.reads[k]) = 1]_vars

\* a bulk step has read a bridged entry the store lacked and has left a
\* bridged entry the store holds unread
C34_Witness ==
    /\ loc.fn = "ingest_source" /\ pc = "loose_deferred" /\ loc.j = 1
    /\ Len(loc.reads) > 0
    /\ \E k \in 1..Len(loc.by_index) :
          /\ entry_sha256hash(sha1db, loc.by_index[k]) # {}
          /\ PathName(loc.by_index[k].path) # "Content.ggpk"
          /\ \A n \in 1..Len(loc.reads) : loc.reads[n] # k

\* the strings the commands of a segment (a stretch without toggle) denote,
\* given the base array at its start, in base phase (each string joins the
\* array) or outside it (the array stays as it is)
RECURSIVE SegmentStrings(_, _, _)
SegmentStrings(seg, bases, base_phase) ==
    IF Len(seg) = 0 THEN <<>>
    ELSE LET s == IF seg[1].cmd <= Len(bases)
                  THEN bases[seg[1].cmd] \o seg[1].s ELSE seg[1].s
         IN <<s>> \o SegmentStrings(Tail(seg),
                                    IF base_phase THEN Append(bases, s) ELSE bases,
                                    base_phase)

\* the length of the stretch of non-zero commands a stream starts with
RECURSIVE SegmentLen(_)
SegmentLen(stream) ==
    IF Len(stream) = 0 \/ stream[1].cmd = 0 THEN 0
    ELSE 1 + SegmentLen(Tail(stream))

\* the reference decoder: the stream is cut at the zero commands into
\* segments that alternate between emitting (the first) and base building;
\* a base segment builds the array from empty, an emitting segment prefixes
\* with the array of the base segment before it
RECURSIVE ReferencePaths(_, _, _)
ReferencePaths(stream, base_phase, bases) ==
    LET n == SegmentLen(stream)
        seg == SubSeq(stream, 1, n)
        strs == SegmentStrings(seg, bases, base_phase)
        rest == SubSeq(stream, n + 2, Len(stream))
    IN IF n = Len(stream)
       THEN IF base_phase THEN <<>> ELSE strs
       ELSE IF base_phase
            THEN ReferencePaths(rest, FALSE, strs)
            ELSE strs \o ReferencePaths(rest, TRUE, <<>>)

\* C35: for every command stream the paths the decoder has yielded when it
\* returns are those of the two-phase reference decoder, and at no point
\* has it yielded a string while in base phase.
C35_PathsFollowReference ==
    "d" \in DOMAIN cl =>
        /\ \A k \in 1..Len(cl["d"].out) : ~cl["d"].out[k].base_phase
        /\ cl["d"].at = "done" =>
              [k \in 1..Len(cl["d"].out) |-> cl["d"].out[k].s]
                 = ReferencePaths(cl["d"].stream, FALSE, <<>>)

\* the decoder has returned from a stream that emits a prefixed path and
\* then enters the base phase again, which empties the base array
C35_Witness ==
    /\ "d" \in DOMAIN cl /\ cl["d"].at = "done"
    /\ cl["d"].stream = << [cmd |-> 0, s |-> ""], [cmd |-> 1, s |-> "a"],
                           [cmd |-> 0, s |-> ""], [cmd |-> 1, s |-> "a"],
                           [cmd |-> 0, s |-> ""], [cmd |-> 0, s |-> ""] >>
    /\ [k \in 1..Len(cl["d"].out) |-> cl["d"].out[k].s] = <<"aa">>
    /\ cl["d"].bases = <<>>

RECURSIVE GroupMembers(_)
\* the bundle indices of the groups, in group order
GroupMembers(groups) ==
    IF Len(groups) = 0 THEN <<>>
    ELSE groups[1].membs \o GroupMembers(Tail(groups))

\* C36: the bundle groups form a partition of all bundle indices (each
\* bundle in exactly one group, no group empty, bundles without files
\* included), and a completed pass over the groups writes one row for every
\* file record of the index bundle and none twice.
C36_GroupsPartitionBundles ==
    ("g" \in DOMAIN cl /\ cl["g"].at \in {"grouped", "done"}) =>
        LET c == cl["g"]
        IN /\ GroupMembers(c.bid_groups) = [b \in 1..Len(c.index.bundles) |-> b - 1]
           /\ \A n \in 1..Len(c.bid_groups) : Len(c.bid_groups[n].membs) > 0
           /\ c.at = "done" =>
                 /\ Len(c.written) = Len(c.index.files)
                 /\ \A k \in 1..Len(c.index.files) :
                       Cardinality({n \in 1..Len(c.written) :
                                       c.written[n] = c.index.files[k]}) = 1

\* a completed pass over two groups, one of them holding a bundle that has
\* no file record
C36_Witness ==
    /\ "g" \in DOMAIN cl /\ cl["g"].at = "done"
    /\ Len(cl["g"].bid_groups) = 2
    /\ \E b \in 1..Len(cl["g"].l2b) : Len(cl["g"].l2b[b]) = 0
    /\ Len(cl["g"].written) = 3

\* C37: file_path is a bounded walk: on every parsed pack and file offset
\* it ends without an exception, and it takes no more parent steps than the
\* pack has directories, also when the parent map has a cycle or the GGPK
\* record names no directory.
C37_FilePathBoundedWalk ==
    "t" \in DOMAIN cl =>
        /\ cl["t"].out.err = "none"
        /\ Len(cl["t"].segments) <= Cardinality(DOMAIN cl["t"].pack.dirs) + 1

\* C38: when loose ingest has found Content.ggpk in a depot, as a manifest
\* entry at any depth (has_pack is set), a completed loose ingest has
\* enumerated the pack: the loose index has a row for every packed file
\* that has a path from the root.
C38_PackFoundIsEnumerated ==
    \A dm \in PackManifests :
        (Facts(dm, "has_pack") /\ Facts(dm, "loose_ingested")) =>
            LET packed == PackRows(open_pack_source(PackBlob))
                reader == index_reader(index, dm.depot, dm.manifest, "loose")
            IN \A k \in 1..Len(packed) : \E n \in 1..Len(reader) : reader[n] = packed[k]

\* C39: a flush that uploads asks the store once which queued digests are
\* missing, calls a loader and writes a row only for digests reported
\* missing, and leaves every queued digest present, the queue empty and
\* both accumulators at zero.
C39_FlushUploadsOnlyGaps ==
    ("b" \in DOMAIN cl /\ cl["b"].call \in {"store_one", "flush"} /\ cl["b"].flushed) =>
        LET c == cl["b"]
            missing == list_missing_objects(c.tbl, DOMAIN c.q.objects)
        IN /\ c.asked = <<DOMAIN c.q.objects>>
           /\ c.loads \subseteq missing
           /\ {r.content_hash : r \in data \ c.tbl} = missing
           /\ c.tbl \subseteq data
           /\ \A a \in DOMAIN c.q.objects : HasObject(data, a)
           /\ queue.objects = EmptyMap
           /\ queue.size_acc = 0 /\ queue.count_acc = 0

\* a flush of a queue that held a lazy object the store had and a lazy
\* object the store lacked
C39_Witness ==
    /\ "b" \in DOMAIN cl /\ cl["b"].call = "flush" /\ cl["b"].flushed
    /\ \E a \in DOMAIN cl["b"].q.objects :
          cl["b"].q.objects[a].lazy /\ HasObject(cl["b"].tbl, a)
    /\ cl["b"].loads # {}

RECURSIVE SumSizes(_)
\* the sum of the sizes of the objects of a queue
SumSizes(objs) ==
    IF DOMAIN objs = {} THEN 0
    ELSE LET a == CHOOSE x \in DOMAIN objs : TRUE
         IN objs[a].size + SumSizes([x \in (DOMAIN objs) \ {a} |-> objs[x]])

\* C40: after every store_one the accumulators are below their non-zero
\* budgets, count_acc is at least the number of queued objects and size_acc
\* is the sum of the sizes of the queued objects, also when a digest was
\* queued more than once since the last flush.
C40_QueueKeepsBudgets ==
    ("b" \in DOMAIN cl /\ cl["b"].call = "store_one") =>
        /\ queue.size_budget # 0 => queue.size_acc < queue.size_budget
        /\ queue.count_budget # 0 => queue.count_acc < queue.count_budget
        /\ queue.count_acc >= Cardinality(DOMAIN queue.objects)
        /\ queue.size_acc = SumSizes(queue.objects)

====
